---------------------------- MODULE Spec2Model ----------------------------
(***************************************************************************)
(* Jackpot Singularity: the coin-interaction and economy state machine.    *)
(*                                                                         *)
(* The model follows App (src/unnamed/part_002, lines 1-482), Coins and    *)
(* Machine (src/unnamed/part_000), Shop (src/unnamed/part_001) and the     *)
(* tables of src/constants.ts and src/types.ts.                            *)
(*                                                                         *)
(* React state is modelled as it behaves: gameState, coinState and         *)
(* isTabActive hold the result of every updater queued so far (updaters    *)
(* are applied in order to the latest state); rendered and activeCoins are *)
(* what the last committed render of App was given, and gameStateRef and   *)
(* intervalSet are what the passive effects last left behind.  A render    *)
(* takes two steps, the commit (Render) and its effects (Effects), and     *)
(* callbacks may run in between.  Handlers that read the render-time       *)
(* gameState closure, gameStateRef.current or the coin a physics body was  *)
(* rendered with read those snapshots, which lag behind the latest state.  *)
(*                                                                         *)
(* Time is counted in whole simulated seconds; the coordinates of a        *)
(* position are rationals; a coin id is the string the code builds, a      *)
(* prefix followed by the base-36 digits drawn from Math.random().         *)
(***************************************************************************)
EXTENDS Integers, Sequences, FiniteSets, TLC

(***************************************************************************)
(* Bounds of the model.                                                    *)
(***************************************************************************)
\* Paid drops per run.
MaxPlaced == 2
\* Rendered coins that reach the sensor per run, and where the pile is
\* collected to fill the meter.
MaxCollected == 2
MaxPileCollected == 3
\* Draws of Math.random() per run that repeat a draw in use or come out empty.
MaxOddDraws == 1
\* Frames per run in which the drain finds events queued: on a bed under
\* way, and in a game followed from the menu.
MaxTicks == 3
MaxRoundTicks == 1
\* Games started (start, and start again after restart).
MaxGames == 1
\* Handler calls between two renders.
MaxBatch == 2
\* Rounds played per game.
MaxAnte == 2
\* The simulated time a game is followed to, in seconds.
MaxTime == 5
\* Purchases per shop visit.
MaxBuys == 2
\* The last round a shop visit is followed from, and the round it may lead to.
MaxShopAnte == 5
MaxAnteReached == 6
\* TREE coins collected before a shop visit.
MaxTrees == 3
\* DIAMOND coins collected in the second round.
MaxDiamonds == 10
\* The sensor is reached by the last SensorReach rendered coins only.
SensorReach == 2
\* A coin touches only coins placed at most this many places before or after it.
ContactReach == 1
\* Collision callbacks per frame: on a bed under way, in a game followed from
\* the menu, and where events of all four kinds are followed into one drain.
MaxContacts == 2
MaxRoundContacts == 1
MaxKindsContacts == 4
\* The bonus levels and extender levels the burst size is computed for.
MaxBonusLevel == 12
MaxExtender == 6

(***************************************************************************)
(* Tables: src/types.ts, src/constants.ts, Coins.                          *)
(***************************************************************************)
GamePhase == {"MENU", "PLAYING", "SHOP", "GAME_OVER"}

CoinType ==
  {"STANDARD", "SPLITTER", "HEAVY", "GOLD", "BOMB", "SEED", "WATER",
   "MAGMA", "ICE", "KEY", "CHEST", "TREE", "OBSIDIAN", "DIAMOND"}

\* value, score and cost of each coin type.
COIN_CONFIG ==
  [t \in CoinType |->
     CASE t = "STANDARD" -> [value |-> 10,   score |-> 100,   cost |-> 5]
       [] t = "SPLITTER" -> [value |-> 15,   score |-> 150,   cost |-> 50]
       [] t = "HEAVY"    -> [value |-> 20,   score |-> 300,   cost |-> 80]
       [] t = "GOLD"     -> [value |-> 100,  score |-> 1000,  cost |-> 200]
       [] t = "BOMB"     -> [value |-> 5,    score |-> 50,    cost |-> 150]
       [] t = "SEED"     -> [value |-> 5,    score |-> 50,    cost |-> 40]
       [] t = "WATER"    -> [value |-> 5,    score |-> 50,    cost |-> 40]
       [] t = "MAGMA"    -> [value |-> 10,   score |-> 80,    cost |-> 60]
       [] t = "ICE"      -> [value |-> 10,   score |-> 80,    cost |-> 60]
       [] t = "KEY"      -> [value |-> 50,   score |-> 200,   cost |-> 120]
       [] t = "CHEST"    -> [value |-> 50,   score |-> 200,   cost |-> 120]
       [] t = "TREE"     -> [value |-> 500,  score |-> 5000,  cost |-> 9999]
       [] t = "OBSIDIAN" -> [value |-> 300,  score |-> 3000,  cost |-> 9999]
       [] t = "DIAMOND"  -> [value |-> 1000, score |-> 10000, cost |-> 9999]]

INITIAL_DECK ==
  [t \in CoinType |->
     CASE t = "STANDARD" -> 30
       [] t = "SPLITTER" -> 2
       [] t = "HEAVY"    -> 1
       [] t = "SEED"     -> 3
       [] t = "WATER"    -> 3
       [] OTHER          -> 0]

\* The artifact catalog: id and base cost.
SHOP_ARTIFACTS ==
  << [id |-> "magnet",   cost |-> 300],
     [id |-> "extender", cost |-> 500],
     [id |-> "mult",     cost |-> 800] >>

INITIAL_STATE ==
  [phase |-> "MENU", score |-> 0, targetScore |-> 2000, cash |-> 100,
   ante |-> 1, deck |-> INITIAL_DECK, artifacts |-> << >>,
   bonus |-> 0, bonusLevel |-> 1]

\* The absence sentinels (undefined / null): of a coin type, of a coin id and
\* of a contact point.
None == "none"
NoId == [prefix |-> "undefined", draw |-> << >>]
NoPoint == << >>

(***************************************************************************)
(* Coin ids: prefix + Math.random().toString(36).substr(2, 9).  draw is    *)
(* the sequence of base-36 digits (0..35) the substring holds, written     *)
(* without the zeros it ends in: << 18, 19 >> is "ij0000000".  The empty   *)
(* draw is the empty substring of Math.random() returning 0.               *)
(***************************************************************************)
Id(prefix, draw) == [prefix |-> prefix, draw |-> draw]

\* The characters of a prefix (those of startGame, of spawnCoin for a paid
\* and for a free coin, of triggerJackpot, handleSplit and
\* handleCoinInteraction), each as its rank in the order in which JavaScript
\* compares strings: '-' 0, '0'..'9' 1..10, 'a'..'z' 11..36.
PrefixChars(prefix) ==
  CASE prefix = ""        -> << >>
    [] prefix = "start-"  -> << 29, 30, 11, 28, 30, 0 >>
    [] prefix = "bonus-"  -> << 12, 25, 24, 31, 29, 0 >>
    [] prefix = "clone-"  -> << 13, 22, 25, 24, 15, 0 >>
    [] prefix = "merged-" -> << 23, 15, 28, 17, 15, 14, 0 >>

\* The digits of the substring of a draw.
DrawLen == 9

\* The characters of an id: a digit of value v is the character of rank v + 1.
Chars(id) ==
  PrefixChars(id.prefix)
    \o [i \in 1..(IF id.draw = << >> THEN 0 ELSE DrawLen) |->
          IF i <= Len(id.draw) THEN id.draw[i] + 1 ELSE 1]

\* s < t of two strings.
StringLess(s, t) ==
  \E k \in 1..(Len(t)) :
    /\ \A i \in 1..(k - 1) : i <= Len(s) /\ s[i] = t[i]
    /\ k > Len(s) \/ s[k] < t[k]

\* id1 < id2 of two ids.
IdLess(id1, id2) == StringLess(Chars(id1), Chars(id2))

\* An id in a condition: undefined and the empty string are falsy.
Truthy(id) == id # NoId /\ ~(id.prefix = "" /\ id.draw = << >>)

\* The draw whose first two digits are the base-36 digits of n.
DrawOf(n) == << n \div 36, n % 36 >>

\* The draws of the paid drops lie around this one.
MidDraw == 648

\* The table with the entry of WATER meeting SEED left out.
interactionResults_OneWay(a, b) ==
  CASE a = "SEED"  /\ b = "WATER" -> "TREE"
    [] a = "MAGMA" /\ b = "ICE"   -> "OBSIDIAN"
    [] a = "ICE"   /\ b = "MAGMA" -> "OBSIDIAN"
    [] a = "KEY"   /\ b = "CHEST" -> "DIAMOND"
    [] a = "CHEST" /\ b = "KEY"   -> "DIAMOND"
    [] OTHER -> None

\* interactionResults[a][b], None where the table has no entry.
interactionResults(a, b) ==
  CASE a = "SEED"  /\ b = "WATER" -> "TREE"
    [] a = "WATER" /\ b = "SEED"  -> "TREE"
    [] a = "MAGMA" /\ b = "ICE"   -> "OBSIDIAN"
    [] a = "ICE"   /\ b = "MAGMA" -> "OBSIDIAN"
    [] a = "KEY"   /\ b = "CHEST" -> "DIAMOND"
    [] a = "CHEST" /\ b = "KEY"   -> "DIAMOND"
    [] OTHER -> None

interactionCoinTypes == {"SEED", "WATER", "MAGMA", "ICE", "KEY", "CHEST"}

\* The pair checks of handleCollision in components/world/Coins.tsx: the
\* result passed to onInteraction for a coin of type coinType touching a coin
\* of type otherType, None when no check matches.
PairChecks(coinType, otherType) ==
  IF \/ coinType = "SEED" /\ otherType = "WATER"
     \/ coinType = "WATER" /\ otherType = "SEED"
  THEN "TREE"
  ELSE IF \/ coinType = "MAGMA" /\ otherType = "ICE"
          \/ coinType = "ICE" /\ otherType = "MAGMA"
  THEN "OBSIDIAN"
  ELSE IF \/ coinType = "KEY" /\ otherType = "CHEST"
          \/ coinType = "CHEST" /\ otherType = "KEY"
  THEN "DIAMOND"
  ELSE None

activeCollisionCoinTypes == interactionCoinTypes \cup {"SPLITTER", "GOLD", "BOMB"}

(***************************************************************************)
(* State.                                                                  *)
(***************************************************************************)
VARIABLES
  gameState,          \* App: useState<GameState>, all queued updaters applied
  coinState,          \* App: useState {coinMap, coinOrder}, likewise
  gameStateRef,       \* App: gameStateRef.current
  rendered,           \* App: gameState and isTabActive of the last committed render
  intervalSet,        \* App: the decay interval is set
  activeCoins,        \* App: the activeCoins memo of the last render (the bodies)
  isTabActive,        \* App: useState isTabActive
  physicsTime,        \* App: physicsTimeRef
  lastScoreTime,      \* App: lastScoreTimeRef
  lastBonusDecayTime, \* App: lastBonusDecayTimeRef
  pendingEvents,      \* Coins: pendingEventsRef
  jackpotTimers,      \* pending setTimeout(triggerJackpot, 0) calls, oldest first
  inSensor,           \* Machine: the rendered bodies that have entered the sensor,
                      \* each the coin id of its userData and which of the
                      \* bodies rendered with that id it is
  budget,             \* what the environment has spent of the model's bounds
  obs,                \* observations of the run the properties are stated over
  hook                \* useRepeatAction: one instance of the hook and its clock

vars ==
  << gameState, coinState, gameStateRef, rendered, intervalSet, activeCoins,
     isTabActive, physicsTime, lastScoreTime, lastBonusDecayTime, pendingEvents,
     jackpotTimers, inSensor, budget, obs, hook >>

timeVars == << physicsTime, lastScoreTime, lastBonusDecayTime >>

EmptyCoinState == [coinMap |-> << >>, coinOrder |-> << >>]

EmptyPending ==
  [interactions |-> << >>, splits |-> << >>, transmutations |-> << >>,
   explosions |-> << >>]

(***************************************************************************)
(* Helpers on the registry and on sequences.                               *)
(***************************************************************************)
Range(s) == {s[i] : i \in DOMAIN s}

\* Array.prototype.filter on a list of ids.
FilterOut(order, gone) == SelectSeq(order, LAMBDA x : x \notin gone)

\* new Map(prev).set(id, coin)
MapSet(m, id, coin) == [k \in (DOMAIN m) \cup {id} |-> IF k = id THEN coin ELSE m[k]]

\* new Map(prev) followed by delete of every id in gone
MapDelete(m, gone) == [k \in (DOMAIN m) \ gone |-> m[k]]

\* A rotation [0, Math.random() * Math.PI * 2, 0].
Drawn == << 0, 1, 0 >>

\* A quotient a / b of the code's floating-point arithmetic, kept as numerator
\* and denominator; 0 / 0 is NaN.
Quot(a, b) == [num |-> a, den |-> b]
IsNaN(q) == q.num = 0 /\ q.den = 0

RECURSIVE Gcd(_, _)
Gcd(a, b) == IF b = 0 THEN a ELSE Gcd(b, a % b)

\* The number p / q, q > 0, in lowest terms.
Ratio(p, q) ==
  LET g == Gcd(IF p < 0 THEN -p ELSE p, q)
  IN  Quot(p \div g, q \div g)

\* A position [x, y, z] of whole coordinates.
Pos(x, y, z) == << Quot(x, 1), Quot(y, 1), Quot(z, 1) >>

\* A CoinData value; hasSplit is FALSE where the code leaves it undefined.
\* rotation is drawn about y by the code wherever it is not zero; Drawn stands
\* for the drawn rotation.
Coin(id, type, position, rotation, hasSplit) ==
  [id |-> id, type |-> type, position |-> position, rotation |-> rotation,
   hasSplit |-> hasSplit]

\* The activeCoins memo: coinOrder mapped through coinMap, absent entries dropped.
ActiveCoinsOf(cs) ==
  LET present == SelectSeq(cs.coinOrder, LAMBDA id : id \in DOMAIN cs.coinMap)
  IN  [i \in DOMAIN present |-> cs.coinMap[present[i]]]

\* artifacts.find(a => a.id === id), as a level: 0 when the artifact is absent.
ArtifactLevel(artifacts, id) ==
  IF \E i \in DOMAIN artifacts : artifacts[i].id = id
  THEN artifacts[CHOOSE i \in DOMAIN artifacts :
                   /\ artifacts[i].id = id
                   /\ \A j \in DOMAIN artifacts : artifacts[j].id = id => i <= j].level
  ELSE 0

\* (Math.random() - 0.5) * dropWidth for the k-th coin dropped: the draws
\* alternate between the two sides of the bed.
DrawX(k) == IF k % 2 = 1 THEN 2 ELSE -2

\* Every id some part of the state still refers to.
UsedIds ==
  (DOMAIN coinState.coinMap)
    \cup Range(coinState.coinOrder)
    \cup {activeCoins[i].id : i \in DOMAIN activeCoins}
    \cup {b[1] : b \in inSensor}
    \cup {pendingEvents.interactions[i].id1 : i \in DOMAIN pendingEvents.interactions}
    \cup {pendingEvents.interactions[i].id2 : i \in DOMAIN pendingEvents.interactions}
    \cup {pendingEvents.splits[i].id : i \in DOMAIN pendingEvents.splits}
    \cup Range(pendingEvents.transmutations)
    \cup Range(pendingEvents.explosions)
    \cup {p[1] : p \in obs.contacts} \cup {p[2] : p \in obs.contacts}
    \cup {p[1] : p \in obs.tick.contacts} \cup {p[2] : p \in obs.tick.contacts}
    \cup {obs.tick.merged[i][1] : i \in DOMAIN obs.tick.merged}
    \cup {obs.tick.merged[i][2] : i \in DOMAIN obs.tick.merged}
    \cup {obs.splitLog[i].source : i \in DOMAIN obs.splitLog}
    \cup {obs.splitLog[i].clone : i \in DOMAIN obs.splitLog}

\* The draws of Math.random() that repeat no earlier draw of the run are
\* numbered: budget.minted counts those of the ids minted in bulk, and the
\* next n of them are these.
FreshSeq(n) == [i \in 1..n |-> DrawOf(budget.minted + i)]

\* The draw of the coin with this prefix that was placed last, if there is one.
LastDraw(prefix) ==
  LET at == {i \in DOMAIN coinState.coinOrder : coinState.coinOrder[i].prefix = prefix}
  IN  {coinState.coinOrder[i].draw : i \in {j \in at : \A k \in at : k <= j}}

\* The draws of n ids minted in one call: all new, or, while the run may
\* still see a repeated draw, the second repeating the first or the first
\* repeating the draw of the coin placed last.
BulkDraws(prefix, n) ==
  LET fresh == FreshSeq(n)
  IN  {fresh}
        \cup (IF budget.odd < MaxOddDraws /\ n >= 2
              THEN {[fresh EXCEPT ![2] = fresh[1]]} ELSE {})
        \cup (IF budget.odd < MaxOddDraws /\ n >= 1
              THEN {[fresh EXCEPT ![1] = d] : d \in LastDraw(prefix)} ELSE {})

\* The new draw a paid drop may come out with after k paid drops of the run:
\* the draws of those drops are higher, so that the id of the new coin is
\* lower than all of theirs.
BelowDraw(k) == DrawOf(MidDraw - k)

\* The draws that repeat a draw in use or come out empty (Math.random() = 0),
\* while the run may still see one.
OddDropDraws ==
  IF budget.odd < MaxOddDraws THEN LastDraw("") \cup {<< >>} ELSE {}

\* The draws of a paid drop.
DropDraws ==
  {BelowDraw(budget.drops)} \cup OddDropDraws

\* new Map(entries) of a list of coins: a later entry replaces an earlier one
\* with the same id.
MapOfCoins(coins) ==
  [id \in {coins[i].id : i \in DOMAIN coins} |->
     coins[CHOOSE i \in DOMAIN coins :
             /\ coins[i].id = id
             /\ \A j \in DOMAIN coins : coins[j].id = id => j <= i]]

\* new Map([...prev, ...entries])
MapMerge(m, coins) ==
  LET added == MapOfCoins(coins)
  IN  [id \in (DOMAIN m) \cup (DOMAIN added) |->
         IF id \in DOMAIN added THEN added[id] ELSE m[id]]

\* One more draw of the run was not a new one.
OddSpent(b, draws, fresh) == IF draws = fresh THEN b ELSE [b EXCEPT !.odd = @ + 1]

\* n more draws were made for ids minted in bulk.
Minted(b, n) == [b EXCEPT !.minted = @ + n]

\* What has been observed of a run before anything has happened.  contacts:
\* the live pairs a contact was reported for in the current tick, each as
\* << lower id, higher id >>; repeated: the dedup keys queued in the current
\* tick when the queue held them already; blasts: the calls of
\* triggerExplosion in the current tick; tick: the contacts, the repeated
\* keys and the bombs of the blasts of the tick the last drain ended, the
\* pairs it merged and the handler calls it made, in order; splitLog: source and clone of the
\* splits on record; decayRun: the simulated time at which the callback of
\* the decay interval last ran; decayed: what the callback has taken off the
\* bonus since the last collection.
NothingObserved ==
  [contacts |-> {}, repeated |-> {}, blasts |-> << >>,
   tick |-> [contacts |-> {}, repeated |-> {}, blasts |-> << >>,
             merged |-> << >>, applied |-> << >>],
   splitLog |-> << >>, decayRun |-> 0, decayed |-> 0]

(***************************************************************************)
(* useRepeatAction: the hold-to-repeat hook of the drop and shop buttons.  *)
(* Time is the wall clock in ms.  hook.timers are the window timers set    *)
(* and neither fired nor cleared; hook.calls counts the invocations of the *)
(* callback.  The other fields record the run for the properties: held,    *)
(* whether a start on the enabled control has happened since the last      *)
(* stop; timerCalls and lastTimerCall, the timer-driven invocations since  *)
(* then and the time of the last; lastGap, the time between the last two;  *)
(* lastDelay, the delay last computed, and delayGrew, whether a delay      *)
(* computed since then was longer than the one before it; ignored, the     *)
(* timers that fired and found timerRef empty; effectPending, whether the   *)
(* passive effects of the last commit of the control (the effect on         *)
(* disabled, the cleanup of an unmount) have yet to run.                    *)
(***************************************************************************)
\* Default arguments of the hook and the ramp of runLoop.
accelerationDelay == 500
minInterval == 30
rampUpDuration == 2000

\* The baseInterval arguments of the three callers.
BaseIntervals == {120, 200, 250}

NoTimer == 0

\* The hook after mount, its control enabled.
HookMounted(baseInterval) ==
  [baseInterval |-> baseInterval, now |-> 0, mounted |-> TRUE, disabled |-> FALSE,
   timerRef |-> NoTimer, timers |-> {}, nextTimer |-> 1, startTime |-> 0,
   calls |-> 0, starts |-> 0, toggles |-> 0, held |-> FALSE, timerCalls |-> 0,
   lastTimerCall |-> 0, lastGap |-> 0, lastDelay |-> 0, delayGrew |-> FALSE,
   ignored |-> 0, effectPending |-> FALSE]

\* stop
stop(h) ==
  IF h.timerRef # NoTimer
  THEN [h EXCEPT !.timers = {t \in @ : t.id # h.timerRef}, !.timerRef = NoTimer]
  ELSE h

\* The << baseInterval, timePastThreshold >> of the three callers at which the
\* double currentDelay falls just below its exact value, a whole number:
\* 30 + 170 * (1 - 1600 / 2000) is 63.99999999999999.
DelayRoundedDown == {<< 200, 1600 >>}

\* currentDelay of runLoop, as window.setTimeout takes it: the double with
\* its fraction dropped.
CurrentDelay(h) ==
  LET elapsed == h.now - h.startTime
      timePastThreshold == elapsed - accelerationDelay
  IN  IF elapsed > accelerationDelay
      THEN IF timePastThreshold >= rampUpDuration THEN minInterval
           ELSE minInterval
                  + ((h.baseInterval - minInterval)
                       * (rampUpDuration - timePastThreshold)) \div rampUpDuration
                  - (IF << h.baseInterval, timePastThreshold >> \in DelayRoundedDown
                     THEN 1 ELSE 0)
      ELSE h.baseInterval

\* runLoop: sets the next timer and keeps its id in timerRef.
runLoop(h) ==
  [h EXCEPT !.timers = @ \cup {[id |-> h.nextTimer, due |-> h.now + CurrentDelay(h)]},
            !.timerRef = h.nextTimer,
            !.nextTimer = @ + 1]

\* The callback given to window.setTimeout by runLoop, run for a due timer.
timerCallback(h, timer) ==
  IF h.timerRef # NoTimer
  THEN runLoop([h EXCEPT !.timers = @ \ {timer}, !.calls = @ + 1])
  ELSE [h EXCEPT !.timers = @ \ {timer}]

\* start
start(h) ==
  IF h.disabled THEN h
  ELSE runLoop([h EXCEPT !.calls = @ + 1, !.startTime = h.now])

\* What a call of runLoop adds to the record of the delays.
DelayNoted(h, before) ==
  [h EXCEPT !.lastDelay = CurrentDelay(before),
            !.delayGrew = @ \/ (before.lastDelay # 0
                                  /\ CurrentDelay(before) > before.lastDelay)]

\* The record of a hold is reset by what ends it.
HoldEnded(h) ==
  [h EXCEPT !.held = FALSE, !.timerCalls = 0, !.lastTimerCall = 0, !.lastGap = 0,
            !.lastDelay = 0, !.delayGrew = FALSE]

(***************************************************************************)
(* Init: the state after App and Coins are constructed.                    *)
(***************************************************************************)
Init ==
  /\ gameState = INITIAL_STATE
  /\ coinState = EmptyCoinState
  /\ gameStateRef = INITIAL_STATE
  /\ rendered = [gameState |-> INITIAL_STATE, isTabActive |-> TRUE]
  /\ intervalSet = FALSE
  /\ activeCoins = << >>
  /\ isTabActive = TRUE
  /\ physicsTime = 0
  /\ lastScoreTime = 0
  /\ lastBonusDecayTime = 0
  /\ pendingEvents = EmptyPending
  /\ jackpotTimers = << >>
  /\ inSensor = {}
  /\ budget = [games |-> 0, placed |-> 0, batch |-> 0, buys |-> 0, contacts |-> 0,
              collected |-> 0, odd |-> MaxOddDraws, ticks |-> 0, minted |-> 0,
              drops |-> 0]
  /\ obs = NothingObserved
  /\ hook = HookMounted(120)

\* One more handler call in the current batch (the calls since the last render).
Spend(b) == [b EXCEPT !.batch = @ + 1]

\* Nothing is spent yet of the bounds of a run that begins in a game under
\* way, minted ids having been minted in bulk and drops coins dropped.
BudgetAfter(minted, drops) ==
  [games |-> 0, placed |-> 0, batch |-> 0, buys |-> 0, contacts |-> 0,
   collected |-> 0, odd |-> 0, ticks |-> 0, minted |-> minted, drops |-> drops]

\* A split stays on record while its source or its clone is in the registry
\* or named by a queued event.
Remembered(e) ==
  {e.source, e.clone} \cap
    ((DOMAIN coinState.coinMap)
       \cup {pendingEvents.splits[i].id : i \in DOMAIN pendingEvents.splits}) # {}

(***************************************************************************)
(* Render: React re-renders App and commits; the handlers of the buttons   *)
(* close over the new gameState and the scene receives the new activeCoins *)
(* and the new pause flag.  Effects: the passive effects of the committed  *)
(* render run; one syncs gameStateRef.current, the other clears the decay  *)
(* interval and sets it again while the phase is PLAYING and the tab is    *)
(* active.  The effects of a render have run before the next one commits.  *)
(***************************************************************************)
\* The passive effects of the last commit have work left to do.
EffectsPending ==
  << gameStateRef, intervalSet >>
    # << rendered.gameState,
         rendered.gameState.phase = "PLAYING" /\ rendered.isTabActive >>

Render ==
  /\ ~EffectsPending
  /\ << rendered.gameState, rendered.isTabActive, budget.batch, activeCoins >>
       # << gameState, isTabActive, 0, ActiveCoinsOf(coinState) >>
  /\ rendered' = [gameState |-> gameState, isTabActive |-> isTabActive]
  /\ activeCoins' = ActiveCoinsOf(coinState)
  /\ inSensor' = {b \in inSensor : b[1] \in DOMAIN coinState.coinMap}
  /\ budget' = [budget EXCEPT !.batch = 0]
  /\ obs' = [obs EXCEPT !.splitLog = SelectSeq(@, LAMBDA e : Remembered(e))]
  /\ UNCHANGED << gameState, coinState, gameStateRef, intervalSet, isTabActive,
                  timeVars, pendingEvents, jackpotTimers >>
  /\ UNCHANGED hook

Effects ==
  /\ EffectsPending
  /\ gameStateRef' = rendered.gameState
  /\ intervalSet' = (rendered.gameState.phase = "PLAYING" /\ rendered.isTabActive)
  /\ UNCHANGED << gameState, coinState, rendered, activeCoins, isTabActive, timeVars,
                  pendingEvents, jackpotTimers, inSensor, budget, obs >>
  /\ UNCHANGED hook

(***************************************************************************)
(* startGame                                                               *)
(***************************************************************************)
\* Array.from({ length: 60 })
FillCount == 60

\* The coins of the initial fill with these draws, in the order placed.
InitialCoins(draws) ==
  [i \in DOMAIN draws |->
     Coin(Id("start-", draws[i]), "STANDARD", Pos(0, 2, 0), Drawn, FALSE)]

startGame(draws) ==
  /\ gameState' = [INITIAL_STATE EXCEPT !.phase = "PLAYING"]
  /\ physicsTime' = 0
  /\ lastScoreTime' = 0
  /\ lastBonusDecayTime' = 0
  /\ LET initialCoins == InitialCoins(draws)
     IN  coinState' =
           [coinMap   |-> MapOfCoins(initialCoins),
            coinOrder |-> [i \in DOMAIN initialCoins |-> initialCoins[i].id]]

\* The draws of a fill none of which repeats another.
FillDraws == [i \in 1..FillCount |-> DrawOf(i)]

\* The draw of the k-th paid drop of a run whose draws were all new and
\* each lower than the one before.
DropDrawAt(k) == BelowDraw(k - 1)

\* The registry of a game in which the sensor has taken the first collected
\* coins of the fill and the player has dropped coins of these types, in
\* this order.
BedOf(collected, drops) ==
  LET fill == SubSeq(InitialCoins(FillDraws), collected + 1, FillCount)
      dropped == [k \in DOMAIN drops |->
                    Coin(Id("", DropDrawAt(k)), drops[k], Pos(DrawX(k), 8, 0),
                         Drawn, FALSE)]
      coins == fill \o dropped
  IN  [coinMap |-> MapOfCoins(coins),
       coinOrder |-> [i \in DOMAIN coins |-> coins[i].id]]

\* The "Initialize Run" button, shown while the rendered phase is MENU.
StartGame ==
  /\ rendered.gameState.phase = "MENU"
  /\ budget.games < MaxGames
  /\ budget.batch < MaxBatch
  /\ \E draws \in BulkDraws("start-", FillCount) :
       /\ startGame(draws)
       /\ budget' = [OddSpent(Spend(Minted(budget, FillCount)), draws,
                               FreshSeq(FillCount))
                      EXCEPT !.games = @ + 1]
  /\ UNCHANGED << gameStateRef, activeCoins, isTabActive, pendingEvents,
                  jackpotTimers, inSensor, obs >>
  /\ UNCHANGED << rendered, intervalSet, hook >>

(***************************************************************************)
(* spawnCoin / handleCoinDrop                                              *)
(***************************************************************************)
\* spawnCoin(type, isFree), draw the digits drawn for the id.
spawnCoin(type, isFree, draw) ==
  LET state == gameStateRef
  IN  IF ~isFree /\ state.deck[type] <= 0
      THEN UNCHANGED << coinState, gameState >>
      ELSE LET newCoin == Coin(Id(IF isFree THEN "bonus-" ELSE "", draw), type,
                               Pos(DrawX(budget.placed + 1), 8, 0), Drawn, FALSE)
           IN  /\ coinState' =
                    [coinMap   |-> MapSet(coinState.coinMap, newCoin.id, newCoin),
                     coinOrder |-> Append(coinState.coinOrder, newCoin.id)]
               /\ gameState' =
                    IF isFree THEN gameState
                    ELSE [gameState EXCEPT !.deck[type] = @ - 1]

handleCoinDrop(type, draw) == spawnCoin(type, FALSE, draw)

\* The game states of the renders whose buttons can call their handlers: the
\* last commit, whose buttons are the ones on the page, and the render whose
\* passive effects ran last.  The repeat timer of a held button is cleared
\* only by a passive effect (the one of a render that disables the button,
\* the cleanup of the unmount), so it fires until the effects of the commit
\* that disabled or removed the button have run.
HandlerViews == {rendered.gameState, gameStateRef}

\* The drop buttons of these types that are pressed or held: shown while the
\* phase of the render is PLAYING, enabled while its count is not 0.
DropEnabled(types) ==
  {type \in types :
     \E view \in HandlerViews : view.phase = "PLAYING" /\ view.deck[type] # 0}

\* A drop button of the HUD calls onDrop, at a press or at a repeat timer.
DropOf(types) ==
  /\ budget.placed < MaxPlaced
  /\ budget.batch < MaxBatch
  /\ \E type \in DropEnabled(types), draw \in DropDraws :
       /\ handleCoinDrop(type, draw)
       /\ budget' = [Spend(budget) EXCEPT
                        !.placed = @ + 1, !.drops = @ + 1,
                        !.odd = IF draw \in OddDropDraws THEN @ + 1 ELSE @]
  /\ UNCHANGED << gameStateRef, activeCoins, isTabActive, timeVars, pendingEvents,
                  jackpotTimers, inSensor, obs >>
  /\ UNCHANGED << rendered, intervalSet, hook >>

\* The types the player can drop without a purchase: those of INITIAL_DECK.
DropTypes == {t \in CoinType : INITIAL_DECK[t] > 0}

DropCoin == DropOf(DropTypes)

\* The player drops only coins of the types bought in the shop.
DropBought ==
  DropOf({t \in CoinType :
            \E view \in HandlerViews : view.deck[t] > INITIAL_DECK[t]})

\* queueInteraction keeping every notification, the repeated ones too.
queueInteraction_NoDedup(pending, id1, id2, result) ==
  [pending EXCEPT !.interactions =
     Append(@, [id1 |-> id1, id2 |-> id2, result |-> result])]

(***************************************************************************)
(* Coins: the collision callback and its queues.                           *)
(***************************************************************************)
\* pendingEvents.interactions.set(`${id1}:${id2}:${result}`, {id1, id2, result})
queueInteraction(pending, id1, id2, result) ==
  LET ev == [id1 |-> id1, id2 |-> id2, result |-> result]
  IN  IF ev \in Range(pending.interactions) THEN pending
      ELSE [pending EXCEPT !.interactions = Append(@, ev)]

\* pendingEvents.splits.set(id, {id, position}): a queued id keeps its place
\* and takes the new position.
queueSplit(pending, id, position) ==
  LET ev == [id |-> id, position |-> position]
  IN  IF \E i \in DOMAIN pending.splits : pending.splits[i].id = id
      THEN [pending EXCEPT !.splits =
              [i \in DOMAIN @ |-> IF @[i].id = id THEN ev ELSE @[i]]]
      ELSE [pending EXCEPT !.splits = Append(@, ev)]

\* pendingEvents.transmutations.add(targetId)
queueTransmute(pending, targetId) ==
  IF targetId \in Range(pending.transmutations) THEN pending
  ELSE [pending EXCEPT !.transmutations = Append(@, targetId)]

\* pendingEvents.explosions.add(id)
queueExplosion(pending, id) ==
  IF id \in Range(pending.explosions) THEN pending
  ELSE [pending EXCEPT !.explosions = Append(@, id)]

\* The blast radius and the blast force of triggerExplosion.
explosionRadius == 8
explosionForce == 8

\* A rigid body of the physics world: its handle and its translation.
Body(handle, translation) == [handle |-> handle, translation |-> translation]

\* The numbers of the explosion arithmetic, a + b * sqrt(n) with a and b
\* quotients and n a whole number: exact where the doubles of the code round
\* to the nearest double.  A perfect square under the root is taken out, so
\* that a number that is rational has b = 0 and n = 1.
QAdd(p, q) ==
  IF IsNaN(p) \/ IsNaN(q) THEN Quot(0, 0)
  ELSE Ratio(p.num * q.den + q.num * p.den, p.den * q.den)

QMul(p, q) ==
  IF IsNaN(p) \/ IsNaN(q) THEN Quot(0, 0)
  ELSE Ratio(p.num * q.num, p.den * q.den)

\* p / q; 0 / 0 is NaN.
QDiv(p, q) ==
  IF IsNaN(p) \/ IsNaN(q) \/ q.num = 0 THEN Quot(0, 0)
  ELSE IF q.num < 0 THEN Ratio(-(p.num * q.den), -(p.den * q.num))
  ELSE Ratio(p.num * q.den, p.den * q.num)

\* The largest whole number whose square is at most n, between lo and hi.
RECURSIVE RootBetween(_, _, _)
RootBetween(n, lo, hi) ==
  IF lo >= hi THEN lo
  ELSE LET mid == (lo + hi + 1) \div 2
       IN  IF mid * mid <= n THEN RootBetween(n, mid, hi)
           ELSE RootBetween(n, lo, mid - 1)

Real(a, b, n) ==
  LET r == RootBetween(n, 0, n)
  IN  IF IsNaN(a) \/ IsNaN(b) THEN [a |-> Quot(0, 0), b |-> Quot(0, 1), n |-> 1]
      ELSE IF b.num = 0 THEN [a |-> a, b |-> Quot(0, 1), n |-> 1]
      ELSE IF r * r = n
      THEN [a |-> QAdd(a, QMul(b, Quot(r, 1))), b |-> Quot(0, 1), n |-> 1]
      ELSE [a |-> a, b |-> b, n |-> n]

Whole(k) == Real(Quot(k, 1), Quot(0, 1), 1)
Half == Real(Quot(1, 2), Quot(0, 1), 1)

\* The number under the root of u and v; one of them may be rational.
Radicand(u, v) == IF u.b.num = 0 THEN v.n ELSE u.n

RAdd(u, v) == Real(QAdd(u.a, v.a), QAdd(u.b, v.b), Radicand(u, v))

RSub(u, v) ==
  Real(QAdd(u.a, QMul(Quot(-1, 1), v.a)), QAdd(u.b, QMul(Quot(-1, 1), v.b)),
       Radicand(u, v))

RMul(u, v) ==
  LET n == Radicand(u, v)
  IN  Real(QAdd(QMul(u.a, v.a), QMul(QMul(u.b, v.b), Quot(n, 1))),
           QAdd(QMul(u.a, v.b), QMul(u.b, v.a)), n)

\* u / v = u * (v.a - v.b * sqrt(n)) / (v.a^2 - v.b^2 * n)
RDiv(u, v) ==
  LET n == Radicand(u, v)
      norm == QAdd(QMul(v.a, v.a),
                   QMul(Quot(-n, 1), QMul(v.b, v.b)))
      top == RMul(u, Real(v.a, QMul(Quot(-1, 1), v.b), n))
  IN  Real(QDiv(top.a, norm), QDiv(top.b, norm), top.n)

\* u < k for a root u = Math.sqrt(..) and a whole number k >= 0.
RootBelow(u, k) ==
  IF u.b.num = 0 THEN u.a.num < k * u.a.den
  ELSE u.n * u.b.num * u.b.num < k * k * u.b.den * u.b.den

\* The comparison with the bound included, u <= k, where line 264 has <:
\* used by the variant ExplosionImpulses_Inclusive only.
RootBelow_Inclusive(u, k) ==
  IF u.b.num = 0 THEN u.a.num <= k * u.a.den
  ELSE u.n * u.b.num * u.b.num <= k * k * u.b.den * u.b.den

\* Math.sqrt of a whole number.
Sqrt(n) == Real(Quot(0, 1), Quot(1, 1), n)

\* The distance of two translations.
Dist(p, q) ==
  Sqrt((p[1] - q[1]) * (p[1] - q[1]) + (p[2] - q[2]) * (p[2] - q[2])
         + (p[3] - q[3]) * (p[3] - q[3]))

\* (1 - dist / explosionRadius) * explosionForce
BlastForce(dist) ==
  RMul(RSub(Whole(1), RDiv(dist, Whole(explosionRadius))), Whole(explosionForce))

\* dir of triggerExplosion: the offset of the other body over dist, with 0.5
\* added to y.
BlastDir(p, q, dist) ==
  << RDiv(Whole(q[1] - p[1]), dist),
     RAdd(RDiv(Whole(q[2] - p[2]), dist), Half),
     RDiv(Whole(q[3] - p[3]), dist) >>

\* The argument of applyImpulse: dir scaled by force.
BlastImpulse(p, q, dist) ==
  [i \in 1..3 |-> RMul(BlastDir(p, q, dist)[i], BlastForce(dist))]

\* ExplosionImpulses reaching the bodies at explosionRadius as well.
ExplosionImpulses_Inclusive(body, world) ==
  {[handle |-> other.handle,
    scale |-> BlastForce(Dist(body.translation, other.translation)),
    impulse |-> BlastImpulse(body.translation, other.translation,
                             Dist(body.translation, other.translation))] :
     other \in {o \in world : /\ o.handle # body.handle
                              /\ RootBelow_Inclusive(Dist(body.translation, o.translation),
                                            explosionRadius)}}

\* The impulses triggerExplosion applies for the body of a bomb:
\* world.forEachRigidBody skips the bomb's own body and every body at
\* explosionRadius or farther; each other body receives its direction from
\* the bomb scaled by BlastForce.
ExplosionImpulses(body, world) ==
  {[handle |-> other.handle,
    scale |-> BlastForce(Dist(body.translation, other.translation)),
    impulse |-> BlastImpulse(body.translation, other.translation,
                             Dist(body.translation, other.translation))] :
     other \in {o \in world : /\ o.handle # body.handle
                              /\ RootBelow(Dist(body.translation, o.translation),
                                           explosionRadius)}}

\* triggerExplosion(id, body): the impulses (ExplosionImpulses) go to the
\* physics bodies at once; the registry sees the queued explosion only.
triggerExplosion(pending, id) == queueExplosion(pending, id)

\* The impact threshold on the squared relative speed.
ImpactThreshold == 25

\* The bomb logic of handleCollision reaches triggerExplosion.
Detonates(coin, speedSq) == coin.type = "BOMB" /\ speedSq > ImpactThreshold

\* The other body of a contact: a coin body carries userData {coinId, coinType}.
CoinBody(coin) == [name |-> "coin", coinId |-> coin.id, coinType |-> coin.type]
Pusher == [name |-> "pusher", coinId |-> NoId, coinType |-> None]
Floor == [name |-> "floor", coinId |-> NoId, coinType |-> None]

\* handleCollision with the midas logic queueing a coin of any type.
handleCollision_MidasAnyType(pending, coin, other, contact, speedSq) ==
  IF coin.type \notin activeCollisionCoinTypes THEN pending
  ELSE
    LET shouldCheckOtherCoin ==
          coin.type \in interactionCoinTypes \/ coin.type = "GOLD"
        otherCoinId == IF shouldCheckOtherCoin THEN other.coinId ELSE NoId
        otherCoinType == IF shouldCheckOtherCoin THEN other.coinType ELSE None
        \* coin-to-coin interactions
        p1 == IF /\ Truthy(otherCoinId)
                 /\ otherCoinType # None
                 /\ coin.type \in interactionCoinTypes
              THEN LET result == interactionResults(coin.type, otherCoinType)
                   IN  IF result # None /\ IdLess(coin.id, otherCoinId)
                       THEN queueInteraction(pending, coin.id, otherCoinId, result)
                       ELSE pending
              ELSE pending
        \* splitter logic
        p2 == IF /\ coin.type = "SPLITTER"
                 /\ ~coin.hasSplit
                 /\ other.name = "pusher"
                 /\ contact # NoPoint
              THEN queueSplit(p1, coin.id,
                              << contact[1], contact[2] + 1, contact[3] >>)
              ELSE p1
        \* midas logic
        p3 == IF /\ coin.type = "GOLD"
                 /\ otherCoinType # None
                 /\ Truthy(otherCoinId)
              THEN queueTransmute(p2, otherCoinId)
              ELSE p2
        \* bomb logic
        p4 == IF Detonates(coin, speedSq)
              THEN triggerExplosion(p3, coin.id)
              ELSE p3
    IN  p4

\* handleCollision without the tie-break: the callback of either coin queues
\* the interaction.
handleCollision_NoTieBreak(pending, coin, other, contact, speedSq) ==
  IF coin.type \notin activeCollisionCoinTypes THEN pending
  ELSE
    LET shouldCheckOtherCoin ==
          coin.type \in interactionCoinTypes \/ coin.type = "GOLD"
        otherCoinId == IF shouldCheckOtherCoin THEN other.coinId ELSE NoId
        otherCoinType == IF shouldCheckOtherCoin THEN other.coinType ELSE None
        \* coin-to-coin interactions
        p1 == IF /\ Truthy(otherCoinId)
                 /\ otherCoinType # None
                 /\ coin.type \in interactionCoinTypes
              THEN LET result == interactionResults(coin.type, otherCoinType)
                   IN  IF result # None
                       THEN queueInteraction(pending, coin.id, otherCoinId, result)
                       ELSE pending
              ELSE pending
        \* splitter logic
        p2 == IF /\ coin.type = "SPLITTER"
                 /\ ~coin.hasSplit
                 /\ other.name = "pusher"
                 /\ contact # NoPoint
              THEN queueSplit(p1, coin.id,
                              << contact[1], contact[2] + 1, contact[3] >>)
              ELSE p1
        \* midas logic
        p3 == IF /\ coin.type = "GOLD"
                 /\ otherCoinType = "STANDARD"
                 /\ Truthy(otherCoinId)
              THEN queueTransmute(p2, otherCoinId)
              ELSE p2
        \* bomb logic
        p4 == IF Detonates(coin, speedSq)
              THEN triggerExplosion(p3, coin.id)
              ELSE p3
    IN  p4

\* handleCollision(payload, coin): coin is the CoinData the body was rendered
\* with, other the other body, contact the first solver contact point (NoPoint
\* when there is none), speedSq the squared relative speed of the two bodies.
handleCollision(pending, coin, other, contact, speedSq) ==
  IF coin.type \notin activeCollisionCoinTypes THEN pending
  ELSE
    LET shouldCheckOtherCoin ==
          coin.type \in interactionCoinTypes \/ coin.type = "GOLD"
        otherCoinId == IF shouldCheckOtherCoin THEN other.coinId ELSE NoId
        otherCoinType == IF shouldCheckOtherCoin THEN other.coinType ELSE None
        \* coin-to-coin interactions
        p1 == IF /\ Truthy(otherCoinId)
                 /\ otherCoinType # None
                 /\ coin.type \in interactionCoinTypes
              THEN LET result == interactionResults(coin.type, otherCoinType)
                   IN  IF result # None /\ IdLess(coin.id, otherCoinId)
                       THEN queueInteraction(pending, coin.id, otherCoinId, result)
                       ELSE pending
              ELSE pending
        \* splitter logic
        p2 == IF /\ coin.type = "SPLITTER"
                 /\ ~coin.hasSplit
                 /\ other.name = "pusher"
                 /\ contact # NoPoint
              THEN queueSplit(p1, coin.id,
                              << contact[1], contact[2] + 1, contact[3] >>)
              ELSE p1
        \* midas logic
        p3 == IF /\ coin.type = "GOLD"
                 /\ otherCoinType = "STANDARD"
                 /\ Truthy(otherCoinId)
              THEN queueTransmute(p2, otherCoinId)
              ELSE p2
        \* bomb logic
        p4 == IF Detonates(coin, speedSq)
              THEN triggerExplosion(p3, coin.id)
              ELSE p3
    IN  p4

\* Contact points the solver may report on the pusher.
ContactPoints == {<< 0, 1, 2 >>, << 2, 1, 2 >>}

\* Squared relative speeds of a contact: at the threshold and above it.
SpeedSqs == {ImpactThreshold, ImpactThreshold + 1}

\* The physics steps only while the rendered phase is not SHOP and the tab is
\* active (Scene3D: paused = isShopOpen || !isTabActive).
PhysicsRunning == rendered.gameState.phase # "SHOP" /\ rendered.isTabActive

\* The handles of the pusher's body and of the floor's body; the handle of
\* the body of a rendered coin is its place among the rendered coins.
PusherHandle == -1
FloorHandle == -2

\* The distances between neighbouring bodies the physics may have arrived at.
Spacings == {1, 2}

\* The layouts of the bodies: how far apart they stand, and whether coin
\* bodies have come to rest in the same spot two by two.
Layouts == [spacing : Spacings, stacked : BOOLEAN]

\* The stop of the i-th rendered coin in the row: one stop per coin, or, when
\* stacked, the second and third coin on one stop, the fourth and fifth on the
\* next, and so on.
Stop(i, stacked) == IF stacked THEN (i + 2) \div 2 ELSE i

\* The rigid bodies of a world with this many coin bodies, standing in a
\* row: the floor, the pusher, then the coins in the order they were placed.
WorldOf(layout, coins) ==
  {Body(i, << layout.spacing * Stop(i, layout.stacked), 0, 0 >>) : i \in 1..coins}
    \cup {Body(PusherHandle, << 0, 0, 0 >>),
          Body(FloorHandle, << -layout.spacing, 0, 0 >>)}

\* The body of the i-th rendered coin in a world.
BodyOf(i, world) == CHOOSE b \in world : b.handle = i

\* A call of triggerExplosion(id, body) on record: the bomb, its body and the
\* world the call found.
Blast(id, i, layout) ==
  [bomb |-> id, body |-> i, layout |-> layout, coins |-> Len(activeCoins)]

\* The world.forEachRigidBody loop of that call: the impulses applied.
Impulses(blast) ==
  LET world == WorldOf(blast.layout, blast.coins)
  IN  ExplosionImpulses(BodyOf(blast.body, world), world)

\* Both coins are in the registry and their types have a rule-table entry.
LivePair(a, b) ==
  /\ a \in DOMAIN coinState.coinMap
  /\ b \in DOMAIN coinState.coinMap
  /\ interactionResults(coinState.coinMap[a].type, coinState.coinMap[b].type) # None

\* The queued events, each as the kind and the dedup key its handler call is
\* put on record with.
QueuedCalls(pending) ==
  {[kind |-> "interaction", key |-> << e.id1, e.id2, e.result >>] :
     e \in Range(pending.interactions)}
    \cup {[kind |-> "split", key |-> << e.id >>] : e \in Range(pending.splits)}
    \cup {[kind |-> "transmute", key |-> << id >>] : id \in Range(pending.transmutations)}
    \cup {[kind |-> "explosion", key |-> << id >>] : id \in Range(pending.explosions)}

\* The number of entries in the four queues.
QueuedCount(pending) ==
  Len(pending.interactions) + Len(pending.splits) + Len(pending.transmutations)
    + Len(pending.explosions)

\* The dedup keys of the events a callback queues, each with its kind.
Notified(coin, other, contact, speedSq) ==
  QueuedCalls(handleCollision(EmptyPending, coin, other, contact, speedSq))

\* The physics engine reports a contact.  Every coin body registers
\* onCollisionEnter, the pusher and the floor register none: a contact of a
\* coin body with one of them calls the coin's callback, a contact of two
\* coin bodies calls the callbacks of both in the same physics step, that of
\* either first.  A contact the callbacks do nothing for (nothing queued, no
\* impulse, nothing put on record) is no step.  Contacts are followed in the
\* frames whose drain is.
CollisionUpTo(maxContacts, maxTicks) ==
  /\ PhysicsRunning
  /\ budget.contacts < maxContacts
  /\ budget.ticks < maxTicks
  /\ \E i \in DOMAIN activeCoins :
       \E j \in {k \in (i - ContactReach)..(i + ContactReach) :
                   k # i /\ k \in DOMAIN activeCoins}
                \cup {PusherHandle, FloorHandle} :
         LET coin == activeCoins[i]
             twoCoins == j \in DOMAIN activeCoins
             other == IF j = PusherHandle THEN Pusher
                      ELSE IF j = FloorHandle THEN Floor
                      ELSE CoinBody(activeCoins[j])
             bombs == {k \in {i, j} \cap DOMAIN activeCoins :
                         activeCoins[k].type = "BOMB"}
         IN  /\ \E k \in {i, j} \cap DOMAIN activeCoins :
                  activeCoins[k].type \in activeCollisionCoinTypes
             /\ \E contact \in (IF j = PusherHandle /\ coin.type = "SPLITTER"
                               THEN ContactPoints \cup {NoPoint} ELSE {NoPoint}),
                speedSq \in (IF bombs # {} THEN SpeedSqs ELSE {0}) :
               LET first == handleCollision(pendingEvents, coin, other, contact, speedSq)
                   second == IF twoCoins
                             THEN handleCollision(first, activeCoins[j], CoinBody(coin),
                                                  NoPoint, speedSq)
                             ELSE first
                   again == (Notified(coin, other, contact, speedSq)
                               \cap QueuedCalls(pendingEvents))
                            \cup (IF twoCoins
                                  THEN Notified(activeCoins[j], CoinBody(coin), NoPoint,
                                                speedSq) \cap QueuedCalls(first)
                                  ELSE {})
                   blasting == (IF Detonates(coin, speedSq) THEN << i >> ELSE << >>)
                               \o (IF twoCoins /\ Detonates(activeCoins[j], speedSq)
                                   THEN << j >> ELSE << >>)
               IN  /\ pendingEvents' = second
                   /\ \E layout \in (IF blasting # << >> THEN Layouts
                                      ELSE {[spacing |-> 1, stacked |-> FALSE]}) :
                        obs' = [obs EXCEPT
                           !.contacts =
                              IF twoCoins /\ LivePair(coin.id, other.coinId)
                              THEN @ \cup {IF IdLess(other.coinId, coin.id)
                                           THEN << other.coinId, coin.id >>
                                           ELSE << coin.id, other.coinId >>}
                              ELSE @,
                           !.repeated = @ \cup again,
                           !.blasts =
                              @ \o [k \in DOMAIN blasting |->
                                      Blast(activeCoins[blasting[k]].id, blasting[k],
                                            layout)]]
  /\ << pendingEvents', obs' >> # << pendingEvents, obs >>
  /\ budget' = [budget EXCEPT !.contacts = @ + 1]
  /\ UNCHANGED << gameState, coinState, gameStateRef, activeCoins, isTabActive,
                  timeVars, jackpotTimers, inSensor >>
  /\ UNCHANGED << rendered, intervalSet, hook >>

Collision == CollisionUpTo(MaxContacts, MaxTicks)
RoundCollision == CollisionUpTo(MaxRoundContacts, MaxRoundTicks)
KindsCollision == CollisionUpTo(MaxKindsContacts, MaxRoundTicks)

(***************************************************************************)
(* App: the coin mechanics handlers.  Each is a setCoinState updater; st   *)
(* carries prev (coinMap, coinOrder), the draws of Math.random() the ids   *)
(* minted next are built from (mergeDraws, cloneDraws), and what the call  *)
(* did (merged: the pairs merged, splitLog: source and clone of each       *)
(* split).                                                                 *)
(***************************************************************************)
\* (a + b) / 2 of two coordinates.
Mid(a, b) == Ratio(a.num * b.den + b.num * a.den, 2 * a.den * b.den)

\* handleCoinInteraction with the second reactant left in coinOrder.
handleCoinInteraction_KeepsOrder(st, id1, id2, resultType) ==
  IF id1 \notin DOMAIN st.coinMap \/ id2 \notin DOMAIN st.coinMap THEN st
  ELSE
    LET newCoin == Coin(Id("merged-", Head(st.mergeDraws)), resultType, st.coinMap[id1].position,
                        << 0, 0, 0 >>, FALSE)
    IN  [st EXCEPT
           !.coinMap = MapSet(MapDelete(@, {id1, id2}), newCoin.id, newCoin),
           !.coinOrder = Append(FilterOut(@, {id1}), newCoin.id),
           !.mergeDraws = Tail(@),
           !.merged = Append(@, << id1, id2 >>)]

\* handleCoinInteraction skipping only when both reactants are gone: the
\* product takes the place of the reactant that is left.
handleCoinInteraction_OneReactantEnough(st, id1, id2, resultType) ==
  IF id1 \notin DOMAIN st.coinMap /\ id2 \notin DOMAIN st.coinMap THEN st
  ELSE
    LET left == IF id1 \in DOMAIN st.coinMap THEN st.coinMap[id1] ELSE st.coinMap[id2]
        coin1 == IF id1 \in DOMAIN st.coinMap THEN st.coinMap[id1] ELSE left
        coin2 == IF id2 \in DOMAIN st.coinMap THEN st.coinMap[id2] ELSE left
        newPos == << Mid(coin1.position[1], coin2.position[1]),
                     Mid(coin1.position[2], coin2.position[2]),
                     Mid(coin1.position[3], coin2.position[3]) >>
        newCoin == Coin(Id("merged-", Head(st.mergeDraws)), resultType, newPos, << 0, 0, 0 >>, FALSE)
    IN  [st EXCEPT
           !.coinMap = MapSet(MapDelete(@, {id1, id2}), newCoin.id, newCoin),
           !.coinOrder = Append(FilterOut(@, {id1, id2}), newCoin.id),
           !.mergeDraws = Tail(@),
           !.merged = Append(@, << id1, id2 >>)]

handleCoinInteraction(st, id1, id2, resultType) ==
  IF id1 \notin DOMAIN st.coinMap \/ id2 \notin DOMAIN st.coinMap THEN st
  ELSE
    LET coin1 == st.coinMap[id1]
        coin2 == st.coinMap[id2]
        newPos == << Mid(coin1.position[1], coin2.position[1]),
                     Mid(coin1.position[2], coin2.position[2]),
                     Mid(coin1.position[3], coin2.position[3]) >>
        newCoin == Coin(Id("merged-", Head(st.mergeDraws)), resultType, newPos, << 0, 0, 0 >>, FALSE)
    IN  [st EXCEPT
           !.coinMap = MapSet(MapDelete(@, {id1, id2}), newCoin.id, newCoin),
           !.coinOrder = Append(FilterOut(@, {id1, id2}), newCoin.id),
           !.mergeDraws = Tail(@),
           !.merged = Append(@, << id1, id2 >>)]

\* handleSplit without the hasSplit check.
handleSplit_NoFlagCheck(st, id, position) ==
  IF id \notin DOMAIN st.coinMap THEN st
  ELSE
    LET original == st.coinMap[id]
        clone == Coin(Id("clone-", Head(st.cloneDraws)), "SPLITTER",
                      Pos(position[1], position[2] + 1, position[3]), Drawn, TRUE)
    IN  [st EXCEPT
           !.coinMap = MapSet(MapSet(@, id, [original EXCEPT !.hasSplit = TRUE]),
                              clone.id, clone),
           !.coinOrder = Append(@, clone.id),
           !.cloneDraws = Tail(@),
           !.splitLog = Append(@, [source |-> id, clone |-> clone.id])]

handleSplit(st, id, position) ==
  IF id \notin DOMAIN st.coinMap THEN st
  ELSE IF st.coinMap[id].hasSplit THEN st
  ELSE
    LET original == st.coinMap[id]
        clone == Coin(Id("clone-", Head(st.cloneDraws)), "SPLITTER",
                      Pos(position[1], position[2] + 1, position[3]), Drawn, TRUE)
    IN  [st EXCEPT
           !.coinMap = MapSet(MapSet(@, id, [original EXCEPT !.hasSplit = TRUE]),
                              clone.id, clone),
           !.coinOrder = Append(@, clone.id),
           !.cloneDraws = Tail(@),
           !.splitLog = Append(@, [source |-> id, clone |-> clone.id])]

handleExplode(st, id) ==
  IF id \notin DOMAIN st.coinMap THEN st
  ELSE [st EXCEPT !.coinMap = MapDelete(@, {id}),
                  !.coinOrder = FilterOut(@, {id})]

\* handleTransmute putting the transmuted coin at the end of the ordered list.
handleTransmute_MovesToEnd(st, targetId) ==
  IF targetId \notin DOMAIN st.coinMap THEN st
  ELSE IF st.coinMap[targetId].type = "GOLD" THEN st
  ELSE [st EXCEPT !.coinMap = MapSet(@, targetId,
                                     [st.coinMap[targetId] EXCEPT !.type = "GOLD"]),
                  !.coinOrder = Append(FilterOut(@, {targetId}), targetId)]

handleTransmute(st, targetId) ==
  IF targetId \notin DOMAIN st.coinMap THEN st
  ELSE IF st.coinMap[targetId].type = "GOLD" THEN st
  ELSE [st EXCEPT !.coinMap = MapSet(@, targetId,
                                     [st.coinMap[targetId] EXCEPT !.type = "GOLD"])]

(***************************************************************************)
(* Coins: the per-frame drain (useFrame).                                  *)
(***************************************************************************)
\* st after a handler call made by the drain: the call is put on record with
\* the kind of its event and the event's dedup key.
Called(st, kind, key) ==
  [st EXCEPT !.applied = Append(@, [kind |-> kind, key |-> key])]

RECURSIVE ForEachInteraction(_, _)
ForEachInteraction(st, evs) ==
  IF evs = << >> THEN st
  ELSE ForEachInteraction(
         Called(handleCoinInteraction(st, Head(evs).id1, Head(evs).id2,
                                      Head(evs).result),
                "interaction", << Head(evs).id1, Head(evs).id2, Head(evs).result >>),
         Tail(evs))

RECURSIVE ForEachSplit(_, _)
ForEachSplit(st, evs) ==
  IF evs = << >> THEN st
  ELSE ForEachSplit(
         Called(handleSplit(st, Head(evs).id, Head(evs).position),
                "split", << Head(evs).id >>),
         Tail(evs))

RECURSIVE ForEachTransmute(_, _)
ForEachTransmute(st, ids) ==
  IF ids = << >> THEN st
  ELSE ForEachTransmute(
         Called(handleTransmute(st, Head(ids)), "transmute", << Head(ids) >>),
         Tail(ids))

RECURSIVE ForEachExplosion(_, _)
ForEachExplosion(st, ids) ==
  IF ids = << >> THEN st
  ELSE ForEachExplosion(
         Called(handleExplode(st, Head(ids)), "explosion", << Head(ids) >>),
         Tail(ids))

\* The drain with the first two loops swapped: splits before interactions.
DrainAll_SplitsFirst(st, pending) ==
  ForEachExplosion(
    ForEachTransmute(
      ForEachInteraction(
        ForEachSplit(st, pending.splits),
        pending.interactions),
      pending.transmutations),
    pending.explosions)

\* The drain order of useFrame: interactions, splits, transmutations, explosions.
DrainAll(st, pending) ==
  ForEachExplosion(
    ForEachTransmute(
      ForEachSplit(
        ForEachInteraction(st, pending.interactions),
        pending.splits),
      pending.transmutations),
    pending.explosions)

\* The forEach loop of one kind of event: 1 interactions, 2 splits,
\* 3 transmutations, 4 explosions.
ForEachKind(st, pending, kind) ==
  CASE kind = 1 -> ForEachInteraction(st, pending.interactions)
    [] kind = 2 -> ForEachSplit(st, pending.splits)
    [] kind = 3 -> ForEachTransmute(st, pending.transmutations)
    [] kind = 4 -> ForEachExplosion(st, pending.explosions)

\* The four loops of the drain run in the order given.
DrainInOrder(st, pending, order) ==
  ForEachKind(
    ForEachKind(
      ForEachKind(
        ForEachKind(st, pending, order[1]),
        pending, order[2]),
      pending, order[3]),
    pending, order[4])

PendingEmpty(pending) ==
  /\ pending.interactions = << >>
  /\ pending.splits = << >>
  /\ pending.transmutations = << >>
  /\ pending.explosions = << >>

\* prev as the first updater of a drain finds it, with the draws of the
\* ids the drain mints.
DrainStart(mergeDraws, cloneDraws) ==
  [coinMap |-> coinState.coinMap, coinOrder |-> coinState.coinOrder,
   mergeDraws |-> mergeDraws, cloneDraws |-> cloneDraws, merged |-> << >>,
   applied |-> << >>, splitLog |-> obs.splitLog]

\* One frame's useFrame callback of Coins.  With nothing queued it returns at
\* once; the frame still ends the tick the contacts were reported in.  A
\* frame no contact was reported in is no step.
DrainUpTo(maxTicks) ==
  /\ budget.contacts > 0
  /\ ~PendingEmpty(pendingEvents)
       => budget.batch < MaxBatch /\ budget.ticks < maxTicks
  /\ \E mergeDraws \in BulkDraws("merged-", Len(pendingEvents.interactions)),
        cloneDraws \in BulkDraws("clone-", Len(pendingEvents.splits)) :
     LET st == DrainAll(DrainStart(mergeDraws, cloneDraws), pendingEvents)
         fresh == << FreshSeq(Len(pendingEvents.interactions)),
                     FreshSeq(Len(pendingEvents.splits)) >>
         minted == Len(pendingEvents.interactions) + Len(pendingEvents.splits)
     IN  /\ mergeDraws # fresh[1] => cloneDraws = fresh[2]
         /\ budget' = [OddSpent((IF PendingEmpty(pendingEvents) THEN budget
                                  ELSE [Spend(Minted(budget, minted))
                                          EXCEPT !.ticks = @ + 1]),
                                 << mergeDraws, cloneDraws >>, fresh)
                        EXCEPT !.contacts = 0]
         /\ coinState' = [coinMap |-> st.coinMap, coinOrder |-> st.coinOrder]
         /\ obs' = [obs EXCEPT !.contacts = {},
                               !.repeated = {},
                               !.blasts = << >>,
                               !.tick = [contacts |-> obs.contacts,
                                         repeated |-> obs.repeated,
                                         blasts |-> [i \in DOMAIN obs.blasts |->
                                                       obs.blasts[i].bomb],
                                         merged |-> st.merged,
                                         applied |-> st.applied],
                               !.splitLog = st.splitLog]
  /\ pendingEvents' = EmptyPending
  /\ UNCHANGED << gameState, gameStateRef, activeCoins, isTabActive, timeVars,
                  jackpotTimers, inSensor >>
  /\ UNCHANGED << rendered, intervalSet, hook >>

Drain == DrainUpTo(MaxTicks)
RoundDrain == DrainUpTo(MaxRoundTicks)

(***************************************************************************)
(* App: collection, the bonus meter and the jackpot.                       *)
(***************************************************************************)
RECURSIVE Pow(_, _)
Pow(b, n) == IF n = 0 THEN 1 ELSE b * Pow(b, n - 1)

\* The arguments, among the scores of COIN_CONFIG, the levels 0..8 of "mult"
\* and the bonus levels 1..40, for which the product of the three doubles
\* config.score * scoreMult * bonusMult falls just below the whole number the
\* exact product is (bonusMult = 1 + 0.1 * (bonusLevel - 1) is not exact in
\* binary), so that Math.floor gives one less.
ScoreRoundedDown ==
  {<< 50, 0, 14 >>, << 50, 0, 32 >>, << 50, 0, 37 >>, << 80, 1, 32 >>,
   << 80, 2, 5 >>, << 80, 2, 14 >>, << 80, 2, 19 >>, << 80, 2, 32 >>,
   << 80, 2, 37 >>, << 80, 4, 37 >>, << 100, 0, 14 >>, << 100, 0, 32 >>,
   << 100, 0, 37 >>, << 100, 3, 19 >>, << 150, 2, 19 >>, << 200, 0, 14 >>,
   << 200, 0, 32 >>, << 200, 0, 37 >>, << 200, 2, 32 >>, << 200, 3, 5 >>,
   << 200, 3, 19 >>, << 200, 3, 37 >>, << 300, 1, 32 >>, << 300, 2, 5 >>,
   << 300, 2, 19 >>, << 300, 2, 37 >>, << 1000, 1, 14 >>, << 1000, 1, 32 >>,
   << 1000, 1, 37 >>, << 1000, 3, 37 >>, << 3000, 0, 14 >>, << 3000, 0, 32 >>,
   << 3000, 0, 37 >>, << 3000, 2, 14 >>, << 3000, 2, 32 >>, << 3000, 2, 37 >>,
   << 5000, 1, 32 >>, << 5000, 2, 5 >>, << 5000, 2, 14 >>, << 5000, 2, 19 >>,
   << 5000, 2, 32 >>, << 5000, 2, 37 >>, << 10000, 1, 32 >>, << 10000, 2, 5 >>,
   << 10000, 2, 14 >>, << 10000, 2, 19 >>, << 10000, 2, 32 >>,
   << 10000, 2, 37 >>, << 10000, 4, 37 >>}

\* Math.floor(score * Math.pow(1.5, level) * (1 + 0.1 * (bonusLevel - 1))) as
\* the doubles give it, for level <= 8 and bonusLevel <= 40.
ScoreGain(score, level, bonusLevel) ==
  (score * Pow(3, level) * (10 + (bonusLevel - 1))) \div (Pow(2, level) * 10)
    - (IF << score, level, bonusLevel >> \in ScoreRoundedDown THEN 1 ELSE 0)

\* The flat meter increase per collected coin, and the full meter.
BonusPerCoin == 4
BonusFull == 100

\* handleCoinCollected(id, type) on the registry.
CollectedCoinState(cs, id) ==
  IF id \notin DOMAIN cs.coinMap THEN cs
  ELSE [coinMap |-> MapDelete(cs.coinMap, {id}),
        coinOrder |-> FilterOut(cs.coinOrder, {id})]

\* let newBonus = state.bonus + 4, and whether it fills the meter.
NewBonus(state) == state.bonus + BonusPerCoin
Fills(state) == NewBonus(state) >= BonusFull

\* The setGameState updater of handleCoinCollected: state is
\* gameStateRef.current as read by the handler, prev the state it is applied to.
CollectedGameState(prev, state, type) ==
  LET config == COIN_CONFIG[type]
      level == ArtifactLevel(state.artifacts, "mult")
      newBonus == IF Fills(state) THEN 0 ELSE NewBonus(state)
      nextBonusLevel == IF Fills(state) THEN state.bonusLevel + 1 ELSE state.bonusLevel
  IN  [prev EXCEPT
         !.score = @ + ScoreGain(config.score, level, state.bonusLevel),
         !.cash = @ + config.value,
         !.bonus = newBonus,
         !.bonusLevel = nextBonusLevel]

handleCoinCollected(id, type) ==
  /\ coinState' = CollectedCoinState(coinState, id)
  /\ lastScoreTime' = physicsTime
  /\ gameState' = CollectedGameState(gameState, gameStateRef, type)
  /\ jackpotTimers' = IF Fills(gameStateRef)
                      THEN Append(jackpotTimers, gameStateRef.bonusLevel + 1)
                      ELSE jackpotTimers
  /\ obs' = [obs EXCEPT !.decayed = 0]

\* The body of the i-th rendered coin as the sensor knows it: the coin id of
\* its userData, and which of the bodies rendered with that id it is.
SensorBody(i) ==
  << activeCoins[i].id,
     Cardinality({j \in 1..i : activeCoins[j].id = activeCoins[i].id}) >>

\* onIntersectionEnter of the collection sensor for a body with this userData.
onIntersectionEnter(coinId, coinType) ==
  IF Truthy(coinId) /\ coinType # None
  THEN handleCoinCollected(coinId, coinType)
  ELSE UNCHANGED << coinState, lastScoreTime, gameState, jackpotTimers, obs >>

\* The collection sensor: a rendered coin body enters it, each body once.
CollectUpTo(maxCollected) ==
  /\ PhysicsRunning
  /\ budget.batch < MaxBatch
  /\ budget.collected < maxCollected
  /\ \E i \in DOMAIN activeCoins :
       /\ i > Len(activeCoins) - SensorReach
       /\ SensorBody(i) \notin inSensor
       /\ inSensor' = inSensor \cup {SensorBody(i)}
       /\ onIntersectionEnter(activeCoins[i].id, activeCoins[i].type)
  /\ budget' = [Spend(budget) EXCEPT !.collected = @ + 1]
  /\ UNCHANGED << gameStateRef, activeCoins, isTabActive, physicsTime,
                  lastBonusDecayTime, pendingEvents >>
  /\ UNCHANGED << rendered, intervalSet, hook >>

Collect == CollectUpTo(MaxCollected)

\* The sensor where the pile is collected until the meter fills.
CollectPile == CollectUpTo(MaxPileCollected)

\* MACHINE_DIMENSIONS
baseWidth == 10
widthPerLevel == 4

\* Math.round of the rational p / q, q > 0, p >= 0.
Round(p, q) == (2 * p + q) \div (2 * q)

Max(a, b) == IF a >= b THEN a ELSE b
Min(a, b) == IF a <= b THEN a ELSE b

\* The number of coins of a jackpot burst.
JackpotCoins(bonusLevel, extenderLevel) ==
  LET bedWidth == baseWidth + extenderLevel * widthPerLevel
      maxJackpotCoins == Max(1, Round(12 * bedWidth, baseWidth))
  IN  Min(maxJackpotCoins, Max(1, Round(10 * (10 + (bonusLevel - 1)), 10)))

\* jackpotCoins of triggerJackpot(bonusLevel)
JackpotCount(bonusLevel) ==
  JackpotCoins(bonusLevel, ArtifactLevel(gameStateRef.artifacts, "extender"))

\* triggerJackpot(bonusLevel), draws the digits drawn for the ids.
triggerJackpot(bonusLevel, draws) ==
  LET newCoins == [i \in 1..JackpotCount(bonusLevel) |->
                     Coin(Id("bonus-", draws[i]), "STANDARD", Pos(0, 8, 0), Drawn, FALSE)]
  IN  coinState' =
        [coinMap |-> MapMerge(coinState.coinMap, newCoins),
         coinOrder |-> coinState.coinOrder \o [i \in DOMAIN newCoins |-> newCoins[i].id]]

\* The zero-delay timer set by a collection that filled the meter fires.
JackpotTimer ==
  /\ jackpotTimers # << >>
  /\ \E draws \in BulkDraws("bonus-", JackpotCount(Head(jackpotTimers))) :
       /\ triggerJackpot(Head(jackpotTimers), draws)
       /\ budget' = OddSpent(Minted(budget, JackpotCount(Head(jackpotTimers))), draws,
                             FreshSeq(JackpotCount(Head(jackpotTimers))))
  /\ jackpotTimers' = Tail(jackpotTimers)
  /\ UNCHANGED << gameState, gameStateRef, activeCoins, isTabActive, timeVars,
                  pendingEvents, inSensor, obs >>
  /\ UNCHANGED << rendered, intervalSet, hook >>

(***************************************************************************)
(* App: simulated time and the bonus decay interval.                       *)
(***************************************************************************)
handlePhysicsTick(deltaSeconds) == physicsTime' = physicsTime + deltaSeconds

\* Simulated seconds one tick may add.
TickDeltas == {1, 2}

PhysicsTick ==
  /\ PhysicsRunning
  /\ \E deltaSeconds \in TickDeltas :
       /\ physicsTime + deltaSeconds <= MaxTime
       /\ handlePhysicsTick(deltaSeconds)
  /\ UNCHANGED << gameState, coinState, gameStateRef, activeCoins, isTabActive,
                  lastScoreTime, lastBonusDecayTime, pendingEvents, jackpotTimers,
                  inSensor, budget, obs >>
  /\ UNCHANGED << rendered, intervalSet, hook >>

GraceSeconds == 2
decayRatePerSecond == 20

\* The decay updater without the floor at 0.
DecayedGameState_NoFloor(prev, decayDelta) ==
  IF prev.bonus <= 0 THEN prev
  ELSE LET nextBonus == prev.bonus - decayRatePerSecond * decayDelta
       IN  [prev EXCEPT !.bonus = nextBonus,
                        !.bonusLevel = IF nextBonus = 0 THEN 1 ELSE @]

\* The setGameState updater of the decay interval.
DecayedGameState(prev, decayDelta) ==
  IF prev.bonus <= 0 THEN prev
  ELSE LET nextBonus == Max(0, prev.bonus - decayRatePerSecond * decayDelta)
       IN  [prev EXCEPT !.bonus = nextBonus,
                        !.bonusLevel = IF nextBonus = 0 THEN 1 ELSE @]

\* One run of the setInterval callback of the decay effect.
decayInterval ==
  LET now == physicsTime
      sinceScore == now - lastScoreTime
      decayDelta == now - lastBonusDecayTime
  IN  IF sinceScore <= GraceSeconds
      THEN /\ lastBonusDecayTime' = now
           /\ UNCHANGED gameState
      ELSE IF decayDelta <= 0
      THEN UNCHANGED << lastBonusDecayTime, gameState >>
      ELSE /\ lastBonusDecayTime' = now
           /\ gameState' = DecayedGameState(gameState, decayDelta)

\* The interval fires: it is set from the effect of a render with the phase
\* PLAYING and the tab active until the effect of a later render clears it.
DecayTick ==
  /\ intervalSet
  /\ budget.batch < MaxBatch
  /\ decayInterval
  /\ budget' = IF gameState' # gameState THEN Spend(budget) ELSE budget
  /\ obs' = [obs EXCEPT !.decayRun = physicsTime,
                         !.decayed = @ + (gameState.bonus - gameState'.bonus)]
  /\ UNCHANGED << coinState, gameStateRef, activeCoins, isTabActive, physicsTime,
                  lastScoreTime, pendingEvents, jackpotTimers, inSensor >>
  /\ UNCHANGED << rendered, intervalSet, hook >>

\* updateTabActive: the tab loses or regains visibility and focus, and
\* setIsTabActive takes the new value.
TabChange ==
  /\ isTabActive' = ~isTabActive
  /\ UNCHANGED << gameState, coinState, gameStateRef, rendered, intervalSet,
                  activeCoins, timeVars, pendingEvents, jackpotTimers, inSensor,
                  budget, obs >>
  /\ UNCHANGED hook

(***************************************************************************)
(* App: rounds, the shop and restart.                                      *)
(***************************************************************************)
\* handleRoundEnd: the comparison reads the render-time gameState, the updater
\* is applied to the latest state.
handleRoundEnd ==
  gameState' =
    IF rendered.gameState.score >= rendered.gameState.targetScore
    THEN [gameState EXCEPT !.phase = "SHOP", !.score = 0, !.bonus = 0,
                           !.bonusLevel = 1]
    ELSE [gameState EXCEPT !.phase = "GAME_OVER"]

\* The AUDIT button of the HUD, shown while the rendered phase is PLAYING.
EndRound ==
  /\ rendered.gameState.phase = "PLAYING"
  /\ budget.batch < MaxBatch
  /\ handleRoundEnd
  /\ budget' = [Spend(budget) EXCEPT !.buys = 0]
  /\ UNCHANGED << coinState, gameStateRef, activeCoins, isTabActive, timeVars,
                  pendingEvents, jackpotTimers, inSensor, obs >>
  /\ UNCHANGED << rendered, intervalSet, hook >>

\* nextRound going back to the menu instead of into the next round.
nextRound_ToMenu ==
  /\ gameState' = [gameState EXCEPT !.phase = "MENU",
                                    !.ante = @ + 1,
                                    !.targetScore = (@ * 3) \div 2]
  /\ lastScoreTime' = physicsTime
  /\ lastBonusDecayTime' = physicsTime

\* nextRound with the new target rounded up instead of down.
nextRound_RoundsUp ==
  /\ gameState' = [gameState EXCEPT !.phase = "PLAYING",
                                    !.ante = @ + 1,
                                    !.targetScore = (@ * 3 + 1) \div 2]
  /\ lastScoreTime' = physicsTime
  /\ lastBonusDecayTime' = physicsTime

nextRound ==
  /\ gameState' = [gameState EXCEPT !.phase = "PLAYING",
                                    !.ante = @ + 1,
                                    !.targetScore = (@ * 3) \div 2]
  /\ lastScoreTime' = physicsTime
  /\ lastBonusDecayTime' = physicsTime

\* The NEXT ANTE button of the shop, shown while the rendered phase is SHOP;
\* the game is followed up to round maxAnte.
NextRoundOf(maxAnte) ==
  /\ rendered.gameState.phase = "SHOP"
  /\ gameState.ante < maxAnte
  /\ budget.batch < MaxBatch
  /\ nextRound
  /\ budget' = Spend(budget)
  /\ UNCHANGED << coinState, gameStateRef, activeCoins, isTabActive, physicsTime,
                  pendingEvents, jackpotTimers, inSensor, obs >>
  /\ UNCHANGED << rendered, intervalSet, hook >>

NextRound == NextRoundOf(MaxAnte)

\* Math.floor(baseArtifact.cost * Math.pow(1.5, currentLevel))
ArtifactCost(baseCost, currentLevel) ==
  (baseCost * Pow(3, currentLevel)) \div Pow(2, currentLevel)

\* The index of the artifact with this id in a list, 0 when there is none
\* (findIndex, with 0 for -1).
FindIndex(artifacts, id) ==
  IF \E i \in DOMAIN artifacts : artifacts[i].id = id
  THEN CHOOSE i \in DOMAIN artifacts :
         /\ artifacts[i].id = id
         /\ \A j \in DOMAIN artifacts : artifacts[j].id = id => i <= j
  ELSE 0

\* The setGameState updater of buyItem.
BoughtGameState(prev, itemType, id, cost) ==
  LET newState == [prev EXCEPT !.cash = @ - cost]
  IN  IF itemType = "coin"
      THEN [newState EXCEPT !.deck[id] = @ + 5]
      ELSE LET existingIndex == FindIndex(prev.artifacts, id)
           IN  IF existingIndex >= 1
               THEN [newState EXCEPT !.artifacts[existingIndex].level = @ + 1]
               ELSE IF \E i \in DOMAIN SHOP_ARTIFACTS : SHOP_ARTIFACTS[i].id = id
               THEN [newState EXCEPT !.artifacts = Append(@, [id |-> id, level |-> 1])]
               ELSE newState

\* buyItem of the render with this gameState: the affordability check reads
\* the gameState the function closed over.
buyItem(closure, itemType, id, cost) ==
  gameState' =
    IF closure.cash >= cost
    THEN BoughtGameState(gameState, itemType, id, cost)
    ELSE gameState

\* What the shop rendered with this gameState offers: every coin type at its
\* cost, every catalog artifact at the cost of its level in that render.
ShopOffers(state) ==
  {[itemType |-> "coin", id |-> t, cost |-> COIN_CONFIG[t].cost] : t \in CoinType}
    \cup
  {[itemType |-> "artifact", id |-> SHOP_ARTIFACTS[i].id,
    cost |-> ArtifactCost(SHOP_ARTIFACTS[i].cost,
                          ArtifactLevel(state.artifacts, SHOP_ARTIFACTS[i].id))] :
     i \in DOMAIN SHOP_ARTIFACTS}

\* The ids of the shop buttons enabled in the render with this gameState:
\* the shop is shown while the phase is SHOP, a button is enabled while the
\* cash covers its cost.
CanAfford(state) ==
  IF state.phase = "SHOP"
  THEN {offer.id : offer \in {o \in ShopOffers(state) : state.cash >= o.cost}}
  ELSE {}

\* The gameState of the render whose callbacks the shop's callbackRefs hold:
\* the render whose passive effects ran last, the mounting render until then.
CallbackView ==
  IF gameStateRef.phase = "SHOP" THEN gameStateRef ELSE rendered.gameState

\* A shop button calls callbackRef.current, at a press of a button the last
\* commit enabled or at the repeat timer of a button enabled in the render
\* whose effects ran last.
Buy ==
  /\ budget.buys < MaxBuys
  /\ budget.batch < MaxBatch
  /\ \E offer \in ShopOffers(CallbackView) :
       /\ offer.id \in CanAfford(rendered.gameState) \cup CanAfford(gameStateRef)
       /\ buyItem(CallbackView, offer.itemType, offer.id, offer.cost)
  /\ budget' = [Spend(budget) EXCEPT !.buys = @ + 1]
  /\ UNCHANGED << coinState, gameStateRef, activeCoins, isTabActive, timeVars,
                  pendingEvents, jackpotTimers, inSensor, obs >>
  /\ UNCHANGED << rendered, intervalSet, hook >>

\* The REBOOT SYSTEM button, shown while the rendered phase is GAME_OVER.
Restart ==
  /\ rendered.gameState.phase = "GAME_OVER"
  /\ budget.batch < MaxBatch
  /\ gameState' = INITIAL_STATE
  /\ coinState' = EmptyCoinState
  /\ budget' = Spend(budget)
  /\ UNCHANGED << gameStateRef, activeCoins, isTabActive, timeVars, pendingEvents,
                  jackpotTimers, inSensor, obs >>
  /\ UNCHANGED << rendered, intervalSet, hook >>

(***************************************************************************)
(* useRepeatAction: the events of the control, the timers and the clock.   *)
(***************************************************************************)
gameVars ==
  << gameState, coinState, gameStateRef, rendered, intervalSet, activeCoins,
     isTabActive, physicsTime, lastScoreTime, lastBonusDecayTime, pendingEvents,
     jackpotTimers, inSensor, budget, obs >>

\* The bounds of a run of the hook: the clock, the starts, the changes of
\* disabled, and the time the user may let pass at once.
MaxClock == 800
MaxStarts == 2
MaxToggles == 2
HoldStep == 40
\* How long after it is due a timer is followed not to have fired.
MaxLate == 40

\* onMouseDown / onTouchStart
HookStart ==
  /\ hook.mounted
  /\ hook.starts < MaxStarts
  /\ LET before == [hook EXCEPT !.starts = @ + 1]
         after == start(before)
     IN  hook' = IF hook.disabled THEN after
                 ELSE DelayNoted([after EXCEPT !.held = TRUE], [before EXCEPT !.startTime = before.now])
  /\ UNCHANGED gameVars

\* onMouseUp / onMouseLeave / onTouchEnd
HookStop ==
  /\ hook.mounted
  /\ hook.held \/ hook.timerRef # NoTimer
  /\ hook' = HoldEnded(stop(hook))
  /\ UNCHANGED gameVars

\* The control is rendered with another value of disabled and the render
\* commits: start now closes over the new value.  The effects of a commit
\* have run before the next one.
HookDisabledChange ==
  /\ hook.mounted
  /\ ~hook.effectPending
  /\ hook.toggles < MaxToggles
  /\ LET h == [hook EXCEPT !.disabled = ~@, !.toggles = @ + 1,
                           !.effectPending = TRUE]
     IN  hook' = IF h.disabled THEN HoldEnded(h) ELSE h
  /\ UNCHANGED gameVars

\* The passive effect on disabled of that commit: stop() when disabled.
HookDisabledEffect ==
  /\ hook.mounted
  /\ hook.effectPending
  /\ hook' = [(IF hook.disabled THEN stop(hook) ELSE hook)
                EXCEPT !.effectPending = FALSE]
  /\ UNCHANGED gameVars

\* The control unmounts: the commit takes it off the page.
HookUnmount ==
  /\ hook.mounted
  /\ ~hook.effectPending
  /\ hook' = HoldEnded([hook EXCEPT !.mounted = FALSE, !.effectPending = TRUE])
  /\ UNCHANGED gameVars

\* The cleanup of the unmount, a passive effect too: stop().
HookCleanup ==
  /\ ~hook.mounted
  /\ hook.effectPending
  /\ hook' = [stop(hook) EXCEPT !.effectPending = FALSE]
  /\ UNCHANGED gameVars

\* A timer that is due fires, at its time or later.
HookTimer ==
  /\ \E timer \in hook.timers :
       /\ timer.due <= hook.now
       /\ LET before == [hook EXCEPT !.timers = @ \ {timer}]
              after == timerCallback(hook, timer)
          IN  hook' =
                IF after.calls > hook.calls
                THEN DelayNoted(
                       [after EXCEPT
                          !.timerCalls = @ + 1,
                          !.lastTimerCall = hook.now,
                          !.lastGap = IF hook.timerCalls > 0
                                      THEN hook.now - hook.lastTimerCall ELSE @],
                       before)
                ELSE [after EXCEPT !.ignored = @ + 1]
  /\ UNCHANGED gameVars

\* Time passes, to the time a timer is due or by what the user lets pass;
\* a timer that is due need not have fired (it runs up to MaxLate late).
\* The passive effects of a commit run before the clock is followed further.
HookAdvance ==
  /\ hook.now < MaxClock
  /\ ~hook.effectPending
  /\ \E later \in {timer.due : timer \in hook.timers} \cup {hook.now + HoldStep} :
       /\ later > hook.now
       /\ later <= MaxClock
       /\ \A timer \in hook.timers : later <= timer.due + MaxLate
       /\ hook' = [hook EXCEPT !.now = later]
  /\ UNCHANGED gameVars

(***************************************************************************)
(* The specification.                                                      *)
(***************************************************************************)
\* The game from construction, the player buying nothing.
Next ==
  \/ Render
  \/ Effects
  \/ StartGame
  \/ DropCoin
  \/ RoundCollision
  \/ RoundDrain
  \/ Collect
  \/ EndRound
  \/ NextRound
  \/ Restart

Spec == Init /\ [][Next]_vars

\* How many coins of a type a list of drops holds.
CountOf(type, drops) == Cardinality({i \in DOMAIN drops : drops[i] = type})

\* A deck after coins of these types were dropped from it.
DeckAfter(deck, drops) == [t \in CoinType |-> deck[t] - CountOf(t, drops)]

\* All but the last of a list of drops.
Front(drops) == SubSeq(drops, 1, Len(drops) - 1)

\* A game under way.  base is the game state before the drops of the round,
\* collected coins of the fill were collected in round one, and the player
\* has dropped coins of the types drops in this order, the last of them a
\* moment ago: the render of that drop has not committed yet.  since is the
\* simulated time of the last collection and of the last run of the decay
\* callback since.  spent is what the run has spent of the bounds so far.
UnderWaySpent(base, collected, drops, since, spent) ==
  /\ gameState = [base EXCEPT !.deck = DeckAfter(@, drops)]
  /\ coinState = BedOf(collected, drops)
  /\ rendered = [gameState |-> [base EXCEPT !.deck = DeckAfter(@, Front(drops))],
                 isTabActive |-> TRUE]
  /\ gameStateRef = rendered.gameState
  /\ intervalSet = (base.phase = "PLAYING")
  /\ activeCoins = ActiveCoinsOf(BedOf(collected, Front(drops)))
  /\ isTabActive = TRUE
  /\ physicsTime = since
  /\ lastScoreTime = since
  /\ lastBonusDecayTime = since
  /\ pendingEvents = EmptyPending
  /\ jackpotTimers = << >>
  /\ inSensor = {}
  /\ budget = [spent EXCEPT !.batch = IF drops = << >> THEN 0 ELSE 1]
  /\ obs = [NothingObserved EXCEPT !.decayRun = since]
  /\ hook = HookMounted(120)

UnderWay(base, collected, drops, since) ==
  UnderWaySpent(base, collected, drops, since, BudgetAfter(FillCount, Len(drops)))

\* The simulated time at which the meter is taken up.
MeterStart == 2

\* The coins of the fill collected before the meter is taken up.
PileTaken == 24

\* The first round with PileTaken coins of the fill collected in its first
\* simulated seconds, the last of them just now: the target is reached and
\* the meter stands one collection short of full.
InitMeter ==
  UnderWay([INITIAL_STATE EXCEPT
              !.phase = "PLAYING",
              !.score = PileTaken * COIN_CONFIG["STANDARD"].score,
              !.cash = @ + PileTaken * COIN_CONFIG["STANDARD"].value,
              !.bonus = PileTaken * BonusPerCoin],
           PileTaken, << >>, MeterStart)

\* The bonus meter under simulated time: collections, the jackpot timer and
\* the decay interval.
NextMeter ==
  \/ Render
  \/ Effects
  \/ CollectPile
  \/ JackpotTimer
  \/ PhysicsTick
  \/ DecayTick
  \/ TabChange

SpecMeter == InitMeter /\ [][NextMeter]_vars

\* What the player may have bought in the first shop visit (at most 300 cash
\* after the twenty collections that reach the first target).
Bought == {{"GOLD"}, {"BOMB"}}

RECURSIVE SumCost(_)
SumCost(types) ==
  IF types = {} THEN 0
  ELSE LET t == CHOOSE x \in types : TRUE
       IN  COIN_CONFIG[t].cost + SumCost(types \ {t})

\* The game state at the start of the second round, collected coins of the
\* fill collected in round one and five coins of each of the types bought in
\* the shop.
SecondRoundAfter(collected, bought) ==
  [INITIAL_STATE EXCEPT
     !.phase = "PLAYING", !.ante = 2,
     !.targetScore = (INITIAL_STATE.targetScore * 3) \div 2,
     !.cash = INITIAL_STATE.cash + collected * COIN_CONFIG["STANDARD"].value
                - SumCost(bought),
     !.deck = [t \in CoinType |->
                 IF t \in bought THEN INITIAL_DECK[t] + 5 ELSE INITIAL_DECK[t]]]

\* The second round after the twenty collections that reach the first target.
SecondRound(bought) == SecondRoundAfter(20, bought)

\* The coins dropped in the second round: one of the type bought, then a
\* SPLITTER.
DroppedBed(bought) == << CHOOSE t \in bought : TRUE, "SPLITTER" >>

\* The second round: twenty coins were collected in round one, the other
\* forty coins of the fill are on the bed, and the player has dropped a
\* bought coin and a SPLITTER.
InitBed ==
  \E bought \in Bought : UnderWay(SecondRound(bought), 20, DroppedBed(bought), 0)

\* The bed in the second round: the mechanics of the bought coins.
NextBed ==
  \/ Render
  \/ Effects
  \/ Collision
  \/ Drain

SpecBed == InitBed /\ [][NextBed]_vars

\* The target of round ante: INITIAL_STATE.targetScore scaled by nextRound
\* once per round passed.
RECURSIVE TargetOf(_)
TargetOf(ante) ==
  IF ante <= 1 THEN INITIAL_STATE.targetScore ELSE (TargetOf(ante - 1) * 3) \div 2

\* The packs of five that hold n coins.
PacksFor(n) == (n + 4) \div 5

\* A shop visit: round ante has just been audited with the target reached and
\* the shop is rendered.  Twenty STANDARD coins and trees TREE coins (grown
\* from that many SEED and WATER drops) were collected on the way, and the
\* other forty coins of the fill are on the bed.  In the second round the
\* player may also have collected diamonds DIAMOND coins, made of KEY and
\* CHEST coins bought in packs in the first shop visit with the cash the
\* trees brought.
InitShop ==
  /\ \E ante \in 1..MaxShopAnte,
        trees \in {0, Min(MaxTrees, Min(INITIAL_DECK["SEED"], INITIAL_DECK["WATER"]))},
        diamonds \in {0, MaxDiamonds} :
       /\ diamonds > 0 => ante = 2 /\ trees > 0
       /\ budget = BudgetAfter(FillCount + trees + diamonds, 2 * (trees + diamonds))
       /\ gameState =
         [INITIAL_STATE EXCEPT
            !.phase = "SHOP", !.ante = ante, !.targetScore = TargetOf(ante),
            !.cash = INITIAL_STATE.cash + 20 * COIN_CONFIG["STANDARD"].value
                       + trees * COIN_CONFIG["TREE"].value
                       - PacksFor(diamonds)
                           * (COIN_CONFIG["KEY"].cost + COIN_CONFIG["CHEST"].cost)
                       + diamonds * COIN_CONFIG["DIAMOND"].value,
            !.deck = [t \in CoinType |->
                        IF t \in {"SEED", "WATER"} THEN INITIAL_DECK[t] - trees
                        ELSE IF t \in {"KEY", "CHEST"}
                        THEN INITIAL_DECK[t] + 5 * PacksFor(diamonds) - diamonds
                        ELSE INITIAL_DECK[t]]]
  /\ coinState = BedOf(20, << >>)
  /\ gameStateRef = gameState
  /\ rendered = [gameState |-> gameState, isTabActive |-> TRUE]
  /\ intervalSet = (gameState.phase = "PLAYING")
  /\ activeCoins = ActiveCoinsOf(coinState)
  /\ isTabActive = TRUE
  /\ physicsTime = 0
  /\ lastScoreTime = 0
  /\ lastBonusDecayTime = 0
  /\ pendingEvents = EmptyPending
  /\ jackpotTimers = << >>
  /\ inSensor = {}
  /\ obs = NothingObserved
  /\ hook = HookMounted(120)

ShopNextRound == NextRoundOf(MaxAnteReached)

\* The shop: purchases, held buttons included, the way into the next round
\* and the drops of what was bought.
NextShop ==
  \/ Render
  \/ Effects
  \/ Buy
  \/ ShopNextRound
  \/ DropBought

SpecShop == InitShop /\ [][NextShop]_vars

\* One instance of the hook, its control mounted and enabled, with the
\* baseInterval of one of its callers.
InitHook ==
  /\ gameState = INITIAL_STATE
  /\ coinState = EmptyCoinState
  /\ gameStateRef = INITIAL_STATE
  /\ rendered = [gameState |-> INITIAL_STATE, isTabActive |-> TRUE]
  /\ intervalSet = FALSE
  /\ activeCoins = << >>
  /\ isTabActive = TRUE
  /\ physicsTime = 0
  /\ lastScoreTime = 0
  /\ lastBonusDecayTime = 0
  /\ pendingEvents = EmptyPending
  /\ jackpotTimers = << >>
  /\ inSensor = {}
  /\ budget = [games |-> 0, placed |-> 0, batch |-> 0, buys |-> 0, contacts |-> 0,
              collected |-> 0, odd |-> 0, ticks |-> 0, minted |-> 0, drops |-> 0]
  /\ obs = NothingObserved
  /\ \E baseInterval \in BaseIntervals : hook = HookMounted(baseInterval)

NextHook ==
  \/ HookStart
  \/ HookStop
  \/ HookDisabledChange
  \/ HookDisabledEffect
  \/ HookUnmount
  \/ HookCleanup
  \/ HookTimer
  \/ HookAdvance

SpecHook == InitHook /\ [][NextHook]_vars

\* The coins dropped onto the bed before the reactions are followed, in the
\* order they were dropped: WATER and SEED coins in turn.
Dropped == << "WATER", "SEED", "WATER", "SEED" >>

\* The first round with the sixty coins of the fill on the bed and the coins
\* of Dropped dropped.
InitReact == UnderWay([INITIAL_STATE EXCEPT !.phase = "PLAYING"], 0, Dropped, 0)

\* The coins the player has dropped in the second round, the first of them
\* of the type bought in the shop.
DroppedMixed(bought) ==
  << CHOOSE t \in bought : TRUE, "SEED", "WATER", "SPLITTER" >>

\* The bed in the second round: twenty coins of the fill were collected in
\* round one, and a bought coin, a SEED, a WATER and a SPLITTER have been
\* dropped.
InitMixed ==
  \E bought \in Bought : UnderWay(SecondRound(bought), 20, DroppedMixed(bought), 0)

\* The reactions on the bed: contacts and drains.
NextReact ==
  \/ Render
  \/ Effects
  \/ Collision
  \/ Drain

SpecReact == InitReact /\ [][NextReact]_vars

\* All four kinds of coin mechanics on one bed.
SpecMixed == InitMixed /\ [][NextReact]_vars

\* Coins of the fill collected in round one where a pack of GOLD and a pack of
\* BOMB were bought in the first shop visit with all the cash they brought
\* (the collections far enough apart for the meter to decay in between).
WholeTaken == 25

\* The coins dropped in the second round on the bed with every mechanic.
DroppedWhole == << "GOLD", "BOMB", "SEED", "WATER", "SPLITTER" >>

\* The second round on a bed with every mechanic: WholeTaken coins of the
\* fill were collected in round one, a pack of GOLD and a pack of BOMB were
\* bought, PileTaken more coins of the fill have been collected in this round
\* without a pause, the last at MeterStart, and the player has dropped the
\* coins of DroppedWhole.  The run is followed for one more drop and one
\* more collection, every draw a fresh one.
InitWhole ==
  UnderWaySpent([SecondRoundAfter(WholeTaken, {"GOLD", "BOMB"}) EXCEPT
                   !.score = PileTaken * COIN_CONFIG["STANDARD"].score,
                   !.cash = @ + PileTaken * COIN_CONFIG["STANDARD"].value,
                   !.bonus = PileTaken * BonusPerCoin],
                WholeTaken + PileTaken, DroppedWhole, MeterStart,
                [BudgetAfter(FillCount, Len(DroppedWhole)) EXCEPT
                   !.placed = MaxPlaced - 1,
                   !.collected = MaxPileCollected - 1,
                   !.odd = MaxOddDraws])

\* The frames of that bed: up to MaxKindsContacts contacts, then the drain.
NextKinds ==
  \/ Render
  \/ Effects
  \/ KindsCollision
  \/ RoundDrain

SpecKinds == InitWhole /\ [][NextKinds]_vars

\* The game on that bed: every operation on the registry.
NextWhole ==
  \/ Render
  \/ Effects
  \/ StartGame
  \/ DropCoin
  \/ RoundCollision
  \/ RoundDrain
  \/ CollectPile
  \/ JackpotTimer
  \/ EndRound
  \/ Restart

SpecWhole == InitWhole /\ [][NextWhole]_vars

(***************************************************************************)
(* Properties.                                                             *)
(***************************************************************************)
\* The unordered pairs of coins a contact was reported for in the last tick,
\* each as << lower id, higher id >>.
TickPairs == obs.tick.contacts

\* How many merges the last drain applied to a pair.
MergesOf(pair) ==
  Cardinality({i \in DOMAIN obs.tick.merged : obs.tick.merged[i] = pair})

CombineCallsOf(pair) ==
  {i \in DOMAIN obs.tick.applied :
     /\ obs.tick.applied[i].kind = "interaction"
     /\ {obs.tick.applied[i].key[1], obs.tick.applied[i].key[2]} = {pair[1], pair[2]}}

\* The places in the last drain's calls of the combine events that merged
\* their pair.
MergingCalls ==
  {i \in DOMAIN obs.tick.applied :
     /\ obs.tick.applied[i].kind = "interaction"
     /\ \E k \in DOMAIN obs.tick.merged :
          obs.tick.merged[k] = << obs.tick.applied[i].key[1], obs.tick.applied[i].key[2] >>}

C2_AtMostOneClone ==
  /\ \A i, j \in DOMAIN obs.splitLog :
       /\ i # j => obs.splitLog[i].source # obs.splitLog[j].source
       /\ obs.splitLog[i].source # obs.splitLog[j].clone
  /\ \A i \in DOMAIN obs.splitLog :
       LET e == obs.splitLog[i] IN
       /\ e.clone \in DOMAIN coinState.coinMap => coinState.coinMap[e.clone].hasSplit
       /\ e.source \in DOMAIN coinState.coinMap => coinState.coinMap[e.source].hasSplit

\* C2 witness: a coin that has split is still rendered with hasSplit false,
\* and a pusher contact of that stale body has queued another split of it.
C2_StaleSplitQueued ==
  \E i \in DOMAIN obs.splitLog, j \in DOMAIN pendingEvents.splits,
     k \in DOMAIN activeCoins :
    /\ pendingEvents.splits[j].id = obs.splitLog[i].source
    /\ activeCoins[k].id = obs.splitLog[i].source
    /\ ~activeCoins[k].hasSplit
    /\ obs.splitLog[i].source \in DOMAIN coinState.coinMap

\* No id occurs twice in a list of ids.
NoDuplicates(order) ==
  \A i, j \in DOMAIN order : i # j => order[i] # order[j]

\* C3: after any sequence of start, drop, jackpot burst, split, combine,
\* transmute, explode, collect and restart in which every id minted was a
\* fresh one (no draw of Math.random() repeated a draw in use), coinOrder
\* holds no id twice, and the ids of coinOrder are the keys of coinMap.
C3_RegistryConsistent ==
  /\ NoDuplicates(coinState.coinOrder)
  /\ Range(coinState.coinOrder) = DOMAIN coinState.coinMap

\* C3 witness: the registry of a game started after a restart, holding the
\* new fill, a coin dropped into it and the coins of a jackpot burst, a
\* queued event drained and a coin collected on the way.
C3_RegistryAfterRestart ==
  /\ budget.games = 1
  /\ obs.tick.applied # << >>
  /\ \E id \in DOMAIN coinState.coinMap : id.prefix = ""
  /\ \E id \in DOMAIN coinState.coinMap : id.prefix = "start-"
  /\ \E id \in DOMAIN coinState.coinMap : id.prefix = "bonus-"

\* C4: 0 <= bonus <= 100 in every state, and 100 is never a resting value.
C4_BonusInRange ==
  /\ 0 <= gameState.bonus
  /\ gameState.bonus < BonusFull

\* C4 witness: a collection has filled the meter (only a fill raises
\* bonusLevel) and the meter rests at 0.
C4_MeterFilled == gameState.bonusLevel = 2 /\ gameState.bonus = 0

\* The id the sensor reported in this step.
CollectedId == (CHOOSE b \in inSensor' \ inSensor : TRUE)[1]

\* A step in which a rendered body enters the sensor and the sensor reports
\* it: a collection.
Collected ==
  /\ inSensor' # inSensor
  /\ inSensor \subseteq inSensor'
  /\ Truthy(CollectedId)

\* The type of the coin collected by a step.
CollectedType ==
  activeCoins[CHOOSE k \in DOMAIN activeCoins : activeCoins[k].id = CollectedId].type

\* C5: a collection that brings bonus to 100 or more sets bonus to 0 and
\* bonusLevel to the bonusLevel before the collection plus one, in the same
\* update; a collection that leaves bonus below 100 keeps bonusLevel.
C5_FillIsAtomic ==
  [][Collected =>
       IF gameState.bonus + BonusPerCoin >= BonusFull
       THEN /\ gameState'.bonus = 0
            /\ gameState'.bonusLevel = gameState.bonusLevel + 1
       ELSE gameState'.bonusLevel = gameState.bonusLevel]_vars

\* C6: collecting a coin of type T adds COIN_CONFIG[T].value to cash and
\* floor(COIN_CONFIG[T].score * 1.5^level(mult) * (1 + 0.1 * (bonusLevel - 1)))
\* to score, with the bonusLevel held before the collection, and raises bonus
\* by 4 (to 0 when that fills the meter).
C6_CollectCredits ==
  [][Collected =>
       LET config == COIN_CONFIG[CollectedType]
           level == ArtifactLevel(gameState.artifacts, "mult")
       IN  /\ gameState'.cash = gameState.cash + config.value
           /\ gameState'.score =
                gameState.score + ScoreGain(config.score, level, gameState.bonusLevel)
           /\ gameState'.bonus =
                IF gameState.bonus + BonusPerCoin >= BonusFull THEN 0
                ELSE gameState.bonus + BonusPerCoin]_vars

\* The coins of the pile collected so far, while the game started with the
\* pile is in its first round and no jackpot coin has been added.
PileCollected == FillCount - Len(coinState.coinOrder)

BeforeFirstBurst ==
  /\ gameState.phase = "PLAYING"
  /\ gameState.ante = 1
  /\ \A id \in DOMAIN coinState.coinMap : id.prefix = "start-"

\* C7: starting from bonus 0 with no decay in between, every collection
\* advances the meter by exactly 4 and the meter fills on exactly the 25th
\* collection, however the collections are grouped in frames.
C7_FillsOnThe25th ==
  BeforeFirstBurst =>
    IF PileCollected * BonusPerCoin < BonusFull
    THEN /\ gameState.bonus = PileCollected * BonusPerCoin
         /\ gameState.bonusLevel = 1
    ELSE /\ gameState.bonus = PileCollected * BonusPerCoin - BonusFull
         /\ gameState.bonusLevel = 2

\* C8: the collect transition adds no coin to the registry, and a burst is
\* scheduled only together with an increment of bonusLevel, so that the
\* bursts never outnumber the increments caused by fills.
C8_OneBurstPerFill ==
  [][/\ Collected => DOMAIN coinState'.coinMap \subseteq DOMAIN coinState.coinMap
     /\ Len(jackpotTimers') > Len(jackpotTimers) =>
          gameState'.bonusLevel = gameState.bonusLevel + 1]_vars

\* The phase transitions of the game.
PhaseEdges ==
  {<< "MENU", "PLAYING" >>, << "PLAYING", "SHOP" >>, << "PLAYING", "GAME_OVER" >>,
   << "SHOP", "PLAYING" >>, << "GAME_OVER", "MENU" >>}

\* C9: the phase changes only along MENU->PLAYING, PLAYING->SHOP,
\* PLAYING->GAME_OVER, SHOP->PLAYING and GAME_OVER->MENU.
C9_PhaseEdgesOnly ==
  [][gameState'.phase # gameState.phase =>
       << gameState.phase, gameState'.phase >> \in PhaseEdges]_vars

\* C9 witness: back in the menu after a second round was lost, so that every
\* edge has been taken: start, end of round to the shop, next round, end of
\* round to game over, restart.
C9_AllEdgesTaken ==
  /\ gameState.phase = "MENU"
  /\ budget.games = 1
  /\ rendered.gameState.phase = "GAME_OVER"
  /\ rendered.gameState.ante = 2

\* C10: ending a round in PLAYING leads to SHOP with score 0, bonus 0 and
\* bonusLevel 1 if score >= targetScore, and to GAME_OVER with the score
\* unchanged otherwise; cash, deck, artifacts, ante, targetScore and the coin
\* registry are unchanged.
C10_EndRound ==
  [][gameState.phase = "PLAYING" /\ gameState'.phase \in {"SHOP", "GAME_OVER"} =>
       /\ IF gameState.score >= gameState.targetScore
          THEN gameState' = [gameState EXCEPT !.phase = "SHOP", !.score = 0,
                                              !.bonus = 0, !.bonusLevel = 1]
          ELSE gameState' = [gameState EXCEPT !.phase = "GAME_OVER"]
       /\ coinState' = coinState]_vars

\* C11: next round, pressed in the shop, sets phase to PLAYING, ante to
\* ante + 1 and targetScore to floor(targetScore * 1.5) and leaves score, cash,
\* deck, artifacts, bonus and bonusLevel as they are; the target of round
\* ante is the ante-th of 2000, 3000, 4500, 6750, 10125, 15187, strictly
\* increasing.
TargetsListed == << 2000, 3000, 4500, 6750, 10125, 15187 >>

C11_NextRound ==
  [][gameState'.ante > gameState.ante
       => /\ gameState' = [gameState EXCEPT
                             !.phase = "PLAYING",
                             !.ante = gameState.ante + 1,
                             !.targetScore = (gameState.targetScore * 3) \div 2]
          /\ \A a \in {gameState.ante, gameState'.ante} \cap DOMAIN TargetsListed :
               /\ a = gameState.ante => gameState.targetScore = TargetsListed[a]
               /\ a = gameState'.ante => gameState'.targetScore = TargetsListed[a]
          /\ gameState'.targetScore > gameState.targetScore]_vars

\* The sixth round has begun from the shop of the fifth.
C11_SixthRound ==
  /\ gameState.phase = "PLAYING"
  /\ gameState.ante = 6
  /\ gameState.targetScore = 15187
  /\ rendered.gameState.phase = "SHOP"
  /\ rendered.gameState.ante = 5

\* The catalog's base cost of an artifact.
BaseCost(id) ==
  SHOP_ARTIFACTS[CHOOSE i \in DOMAIN SHOP_ARTIFACTS : SHOP_ARTIFACTS[i].id = id].cost

ArtifactIds == {SHOP_ARTIFACTS[i].id : i \in DOMAIN SHOP_ARTIFACTS}

\* C12: every purchase that raises an artifact from level L to L + 1 deducts
\* exactly floor(baseCost * 1.5^L) from cash, purchases repeated by a held
\* button before the shop has re-rendered included.
C12_ArtifactCost ==
  [][\A id \in ArtifactIds :
       LET L == ArtifactLevel(gameState.artifacts, id)
       IN  ArtifactLevel(gameState'.artifacts, id) # L
             => /\ ArtifactLevel(gameState'.artifacts, id) = L + 1
                /\ gameState.cash - gameState'.cash
                     = (BaseCost(id) * Pow(3, L)) \div Pow(2, L)]_vars

\* A purchase of the offer applied to the state g, as the claim describes it.
Purchased(g, offer) ==
  IF offer.itemType = "coin"
  THEN [g EXCEPT !.cash = @ - offer.cost, !.deck[offer.id] = @ + 5]
  ELSE [g EXCEPT
          !.cash = @ - offer.cost,
          !.artifacts =
             IF ArtifactLevel(g.artifacts, offer.id) = 0
             THEN Append(@, [id |-> offer.id, level |-> 1])
             ELSE [k \in DOMAIN @ |->
                     IF @[k].id = offer.id
                     THEN [@[k] EXCEPT !.level = @ + 1] ELSE @[k]]]

\* C13: a purchase with cash >= cost takes cost from cash and adds 5 to the
\* deck count of the coin bought, or puts a new artifact at level 1, or raises
\* an owned artifact by one level, and changes nothing else; a purchase with
\* cash < cost changes no part of the state.
C13_PurchaseOrNothing ==
  [][budget'.buys = budget.buys + 1
       => \E view \in HandlerViews : \E offer \in ShopOffers(view) :
            gameState' = IF gameState.cash >= offer.cost
                         THEN Purchased(gameState, offer)
                         ELSE gameState]_vars

\* C14: cash is never negative, whatever purchases are made, also when a
\* held button repeats a purchase before the shop has re-rendered.
C14_CashNeverNegative == gameState.cash >= 0

\* C15: every deck count is a non-negative integer in every reachable state,
\* also after drops repeated before gameStateRef is refreshed; a paid drop of
\* a type whose count is 0 spawns no coin.
C15_DeckNeverNegative ==
  \A t \in CoinType : gameState.deck[t] \in Nat

\* C16: a collection notification for an id that is not, or no longer, in the
\* registry is dropped: registry, cash, score, bonus and bonusLevel are all
\* unchanged.
C16_AbsentIdDropped ==
  [][Collected /\ CollectedId \notin DOMAIN coinState.coinMap
       => /\ coinState' = coinState
          /\ gameState'.cash = gameState.cash
          /\ gameState'.score = gameState.score
          /\ gameState'.bonus = gameState.bonus
          /\ gameState'.bonusLevel = gameState.bonusLevel]_vars

\* The place of a kind of event in the drain order.
KindRank(kind) ==
  CASE kind = "interaction" -> 1
    [] kind = "split"       -> 2
    [] kind = "transmute"   -> 3
    [] kind = "explosion"   -> 4

\* C17: each drain applies the queued events in the fixed order combine,
\* split, transmute, explosion: no event of a later kind is applied before an
\* event of an earlier kind queued for the same drain.
C17_DrainOrder ==
  \A i, j \in DOMAIN obs.tick.applied :
    i < j => KindRank(obs.tick.applied[i].kind) <= KindRank(obs.tick.applied[j].kind)

\* The last drain applied events of all four kinds.
C17_FourKindsDrained ==
  {obs.tick.applied[i].kind : i \in DOMAIN obs.tick.applied}
    = {"interaction", "split", "transmute", "explosion"}

\* C18: however many collision notifications carry the same dedup key within
\* a tick, the queues hold the key once and the next drain calls the handler
\* for it exactly once; after a drain all four queues are empty, so no queued
\* event is lost and none is delivered again in a later tick.
C18_OncePerKey ==
  [][/\ QueuedCount(pendingEvents') = Cardinality(QueuedCalls(pendingEvents'))
     /\ (obs'.tick # obs.tick \/ QueuedCount(pendingEvents') < QueuedCount(pendingEvents))
          => /\ PendingEmpty(pendingEvents')
             /\ Range(obs'.tick.applied) = QueuedCalls(pendingEvents)
             /\ Len(obs'.tick.applied) = Cardinality(QueuedCalls(pendingEvents))]_vars

\* A pair key was queued again in a tick while the queue held it, the drain
\* that ended the tick called the handler for it once, and a later tick has
\* queued an event and left the key out.
C18_TwiceNotifiedOnceApplied ==
  \E r \in obs.tick.repeated :
    /\ r.kind = "interaction"
    /\ Cardinality({k \in DOMAIN obs.tick.applied : obs.tick.applied[k] = r}) = 1
    /\ ~PendingEmpty(pendingEvents)
    /\ r \notin QueuedCalls(pendingEvents)

\* C19: an explosion is resolved once, at the drain: for a bomb with several
\* qualifying contacts in one tick the radial impulse is applied to the
\* nearby bodies exactly once, and none is applied from inside the collision
\* callback (obs.blasts holds the impulse applications made by the callbacks
\* of the current tick).
C19_OneBlastPerBomb ==
  \A i, j \in DOMAIN obs.blasts : i # j => obs.blasts[i].bomb # obs.blasts[j].bomb

\* The world a blast found.
BlastWorld(blast) == WorldOf(blast.layout, blast.coins)

\* The distance of every body of a world, by its handle, from the body with
\* the handle from, along the row the bodies stand in.
RowDistances(world, from) ==
  LET at == [h \in {b.handle : b \in world} |->
               (CHOOSE b \in world : b.handle = h).translation[1]]
  IN  [h \in DOMAIN at |->
         IF at[h] < at[from] THEN at[from] - at[h] ELSE at[h] - at[from]]

\* The scale of each impulse of a set, by the handle of the body it went to.
ScalesGiven(impulses) ==
  [h \in {m.handle : m \in impulses} |->
     (CHOOSE m \in impulses : m.handle = h).scale]

\* C20: a body at distance d from the detonation centre, with R = 8 and
\* force = 8, receives an impulse scaled by force * (1 - d / R) when d < R,
\* strictly less the farther it is, and no impulse at all when d >= R; the
\* detonating body itself receives none.
C20_ImpulseFalloff ==
  \A k \in DOMAIN obs.blasts :
    LET blast == obs.blasts[k]
        distance == RowDistances(BlastWorld(blast), blast.body)
        scale == ScalesGiven(Impulses(blast))
    IN  /\ blast.body \notin DOMAIN scale
        /\ \A h \in (DOMAIN distance) \ {blast.body} :
             /\ distance[h] < 8 => /\ h \in DOMAIN scale
                                   /\ scale[h] = Whole(8 - distance[h])
             /\ distance[h] >= 8 => h \notin DOMAIN scale
        /\ \A g, h \in DOMAIN scale :
             distance[g] < distance[h]
               => /\ scale[g].b.num = 0 /\ scale[h].b.num = 0
                  /\ scale[g].a.num * scale[h].a.den > scale[h].a.num * scale[g].a.den

\* A blast with two bodies at different distances inside the radius, a body
\* exactly at the radius and a body beyond it.
C20_NearAtAndBeyond ==
  \E k \in DOMAIN obs.blasts :
    LET blast == obs.blasts[k]
        distance == RowDistances(BlastWorld(blast), blast.body)
        scale == ScalesGiven(Impulses(blast))
    IN  /\ \E g, h \in DOMAIN scale : distance[g] < distance[h]
        /\ \E h \in DOMAIN distance : distance[h] = 8
        /\ \E h \in DOMAIN distance : distance[h] > 8

\* C21: for a body exactly at the detonation centre (distance 0) the
\* explosion resolver divides nothing by zero and applies no undefined (NaN)
\* impulse to that body.
C21_NoNaNImpulse ==
  \A k \in DOMAIN obs.blasts :
    \A m \in Impulses(obs.blasts[k]) :
      \A i \in 1..3 :
        /\ m.impulse[i].a.den # 0 /\ ~IsNaN(m.impulse[i].a)
        /\ m.impulse[i].b.den # 0 /\ ~IsNaN(m.impulse[i].b)

\* The product types of the combine reactions.
ProductTypes == {"TREE", "OBSIDIAN", "DIAMOND"}

\* C22: coins of a product type (TREE, OBSIDIAN, DIAMOND) enter the registry
\* only through a combine reaction: a step that puts such a coin into the
\* registry takes out two reactants whose product it is, and no coin in the
\* registry turns into a product type.
C22_ProductsOnlyFromCombine ==
  [][\A id \in DOMAIN coinState'.coinMap :
       coinState'.coinMap[id].type \in ProductTypes =>
         \/ /\ id \in DOMAIN coinState.coinMap
            /\ coinState.coinMap[id].type = coinState'.coinMap[id].type
         \/ /\ id \notin DOMAIN coinState.coinMap
            /\ \E a, b \in (DOMAIN coinState.coinMap) \ (DOMAIN coinState'.coinMap) :
                 interactionResults(coinState.coinMap[a].type,
                                    coinState.coinMap[b].type)
                   = coinState'.coinMap[id].type]_vars

\* The step is a drain of exactly one queued event, a combine event.
DrainsOneCombine ==
  /\ Len(pendingEvents.interactions) = 1
  /\ pendingEvents.splits = << >>
  /\ pendingEvents.transmutations = << >>
  /\ pendingEvents.explosions = << >>
  /\ PendingEmpty(pendingEvents')

\* C23: a combine event (id1, id2, product) applied with both ids present
\* removes both reactants and inserts exactly one new entity with a fresh id,
\* type = product, position = the componentwise midpoint of the reactants,
\* rotation (0, 0, 0), appended at the end of the ordered list; the registry
\* shrinks by exactly one and every other entity is untouched.
C23_CombineContract ==
  [][LET ev == pendingEvents.interactions[1]
         old == coinState.coinMap
         new == coinState'.coinMap
     IN  DrainsOneCombine /\ {ev.id1, ev.id2} \subseteq DOMAIN old
           => \E id \in DOMAIN new :
                /\ id \notin UsedIds
                /\ DOMAIN new = ((DOMAIN old) \ {ev.id1, ev.id2}) \cup {id}
                /\ Cardinality(DOMAIN new) = Cardinality(DOMAIN old) - 1
                /\ new[id].id = id
                /\ new[id].type = ev.result
                /\ \A k \in 1..3 :
                     LET p == new[id].position[k]
                         a == old[ev.id1].position[k]
                         b == old[ev.id2].position[k]
                     IN  2 * p.num * a.den * b.den
                           = (a.num * b.den + b.num * a.den) * p.den
                /\ new[id].rotation = << 0, 0, 0 >>
                /\ coinState'.coinOrder =
                     Append(SelectSeq(coinState.coinOrder,
                                      LAMBDA c : c # ev.id1 /\ c # ev.id2), id)
                /\ \A c \in (DOMAIN old) \ {ev.id1, ev.id2} : new[c] = old[c]]_vars

\* The step is a drain of exactly one queued event, a transmute event.
DrainsOneTransmute ==
  /\ pendingEvents.interactions = << >>
  /\ pendingEvents.splits = << >>
  /\ Len(pendingEvents.transmutations) = 1
  /\ pendingEvents.explosions = << >>
  /\ PendingEmpty(pendingEvents')

\* C24: transmute is an in-place type change: applied to a present non-GOLD
\* target it changes only that entity's type to GOLD (id, position, rotation,
\* hasSplit and the place in the ordered list stay, no entity is added or
\* removed); applied to a missing or already-GOLD target it leaves the
\* registry unchanged.
C24_TransmuteInPlace ==
  [][LET target == pendingEvents.transmutations[1]
         old == coinState.coinMap
         new == coinState'.coinMap
     IN  DrainsOneTransmute
           => IF target \in DOMAIN old /\ old[target].type # "GOLD"
              THEN /\ DOMAIN new = DOMAIN old
                   /\ coinState'.coinOrder = coinState.coinOrder
                   /\ new[target].type = "GOLD"
                   /\ new[target].id = old[target].id
                   /\ new[target].position = old[target].position
                   /\ new[target].rotation = old[target].rotation
                   /\ new[target].hasSplit = old[target].hasSplit
                   /\ \A c \in (DOMAIN old) \ {target} : new[c] = old[c]
              ELSE coinState' = coinState]_vars

\* The last drain transmuted the last coin of the fill, which is GOLD now and
\* still at its place in the ordered list, before the two coins dropped.
C24_FillCoinTurnedGold ==
  LET target == Id("start-", FillDraws[FillCount])
  IN  /\ \E k \in DOMAIN obs.tick.applied :
           obs.tick.applied[k] = [kind |-> "transmute", key |-> << target >>]
      /\ target \in DOMAIN coinState.coinMap
      /\ coinState.coinMap[target]
           = [InitialCoins(FillDraws)[FillCount] EXCEPT !.type = "GOLD"]
      /\ Len(coinState.coinOrder) = FillCount - 20 + 2
      /\ coinState.coinOrder[FillCount - 20] = target

\* C25: a step that changes bonus without a collection is a run of the decay
\* callback with phase PLAYING, the tab active, more than 2 simulated seconds
\* since the last collection and simulated time advanced since the previous
\* run of the callback; bonus is then lowered by 20 times the simulated
\* seconds since that previous run, floored at 0.  In particular bonus does
\* not decay while simulated time stands still.
C25_DecayBySimulatedTime ==
  [][(inSensor' = inSensor /\ gameState'.bonus # gameState.bonus)
       => /\ gameState.phase = "PLAYING"
          /\ isTabActive
          /\ physicsTime - lastScoreTime > 2
          /\ physicsTime' = physicsTime
          /\ physicsTime > obs.decayRun
          /\ gameState'.bonus =
               Max(0, gameState.bonus - 20 * (physicsTime - obs.decayRun))]_vars

\* C26: whenever phase is MENU the game state is the initial snapshot and the
\* coin registry is empty, also after a restart with a jackpot timer or queued
\* collision events outstanding.
C26_MenuIsInitial ==
  gameState.phase = "MENU"
    => /\ gameState = INITIAL_STATE
       /\ coinState = EmptyCoinState

\* The unordered pairs of types the rule table is declared for, with their
\* products.
DeclaredPairs ==
  {[pair |-> {"SEED", "WATER"}, result |-> "TREE"],
   [pair |-> {"MAGMA", "ICE"}, result |-> "OBSIDIAN"],
   [pair |-> {"KEY", "CHEST"}, result |-> "DIAMOND"]}

\* C27: the combine table is symmetric; it has an entry exactly for the pairs
\* {SEED,WATER} -> TREE, {MAGMA,ICE} -> OBSIDIAN, {KEY,CHEST} -> DIAMOND; no
\* type combines with itself; no product is reaction-eligible or has an entry
\* of its own; the pair checks of the scene component agree with the table;
\* and every queued combine event carries a product, with the table's entry
\* for the types of its two coins in either order while both are live.
C27_CombineTable ==
  /\ \A a, b \in CoinType :
       /\ interactionResults(a, b) = interactionResults(b, a)
       /\ interactionResults(a, b) # None
            <=> \E d \in DeclaredPairs : d.pair = {a, b} /\ a # b
       /\ \A d \in DeclaredPairs :
            (d.pair = {a, b} /\ a # b) => interactionResults(a, b) = d.result
       /\ PairChecks(a, b) = interactionResults(a, b)
  /\ \A a \in CoinType : interactionResults(a, a) = None
  /\ interactionCoinTypes =
       {a \in CoinType : \E b \in CoinType : interactionResults(a, b) # None}
  /\ \A p \in ProductTypes :
       /\ p \notin interactionCoinTypes
       /\ \A b \in CoinType :
            interactionResults(p, b) = None /\ interactionResults(b, p) = None
  /\ \A i \in DOMAIN pendingEvents.interactions :
       LET ev == pendingEvents.interactions[i]
           map == coinState.coinMap
       IN  /\ ev.result \in ProductTypes
           /\ (ev.id1 \in DOMAIN map /\ ev.id2 \in DOMAIN map)
                => /\ ev.result = interactionResults(map[ev.id1].type, map[ev.id2].type)
                   /\ ev.result = interactionResults(map[ev.id2].type, map[ev.id1].type)
                   /\ map[ev.id1].type \notin ProductTypes
                   /\ map[ev.id2].type \notin ProductTypes

\* C27 witness: the table was looked up in both orders (the first SEED
\* touching the first WATER, the second WATER touching the first SEED), and
\* both lookups are queued with TREE.
C27_BothOrdersQueued ==
  LET water1 == Id("", DropDrawAt(1))
      seed1 == Id("", DropDrawAt(2))
      water2 == Id("", DropDrawAt(3))
  IN  /\ [id1 |-> seed1, id2 |-> water1, result |-> "TREE"]
           \in Range(pendingEvents.interactions)
      /\ [id1 |-> water2, id2 |-> seed1, result |-> "TREE"]
           \in Range(pendingEvents.interactions)
      /\ {water1, seed1, water2} \subseteq DOMAIN coinState.coinMap
      /\ coinState.coinMap[water2].type = "WATER"
      /\ coinState.coinMap[seed1].type = "SEED"

\* The step drains two combine events that name a common coin, all three
\* coins being in the registry, and nothing else.
DrainsTwoCombinesOfOneCoin ==
  /\ Len(pendingEvents.interactions) = 2
  /\ pendingEvents.splits = << >>
  /\ pendingEvents.transmutations = << >>
  /\ pendingEvents.explosions = << >>
  /\ PendingEmpty(pendingEvents')
  /\ LET first == pendingEvents.interactions[1]
         second == pendingEvents.interactions[2]
     IN  /\ {first.id1, first.id2} \cap {second.id1, second.id2} # {}
         /\ {first.id1, first.id2} # {second.id1, second.id2}
         /\ {first.id1, first.id2, second.id1, second.id2}
              \subseteq DOMAIN coinState.coinMap

\* C28: when one drain applies two combine events naming the same coin, the
\* first takes effect (its two coins leave the registry), the second is
\* skipped (its other reactant stays, unchanged), exactly one coin is
\* created, of the first event's result type, and every other coin is kept.
C28_ConsumedOnce ==
  [][DrainsTwoCombinesOfOneCoin
       => LET first == pendingEvents.interactions[1]
              second == pendingEvents.interactions[2]
              old == coinState.coinMap
              new == coinState'.coinMap
              spared == {second.id1, second.id2} \ {first.id1, first.id2}
              created == (DOMAIN new) \ (DOMAIN old)
          IN  /\ first.id1 \notin DOMAIN new
              /\ first.id2 \notin DOMAIN new
              /\ \A c \in spared : c \in DOMAIN new /\ new[c] = old[c]
              /\ Cardinality(created) = 1
              /\ \A c \in created : new[c].type = first.result
              /\ \A c \in (DOMAIN old) \ {first.id1, first.id2} :
                   c \in DOMAIN new /\ new[c] = old[c]
              /\ Len(coinState'.coinOrder) = Len(coinState.coinOrder) - 1]_vars

\* C28 witness: the last drain called the combine handler twice, for the
\* first SEED with the first WATER and for the second WATER with the first
\* SEED, and merged once; one TREE is in the registry and the second WATER
\* is where it was dropped.
C28_SecondCombineSkipped ==
  LET water1 == Id("", DropDrawAt(1))
      seed1 == Id("", DropDrawAt(2))
      water2 == Id("", DropDrawAt(3))
  IN  /\ Len(obs.tick.applied) = 2
      /\ obs.tick.applied[1]
           = [kind |-> "interaction", key |-> << seed1, water1, "TREE" >>]
      /\ obs.tick.applied[2]
           = [kind |-> "interaction", key |-> << water2, seed1, "TREE" >>]
      /\ obs.tick.merged = << << seed1, water1 >> >>
      /\ Cardinality({c \in DOMAIN coinState.coinMap :
                         coinState.coinMap[c].type = "TREE"}) = 1
      /\ water2 \in DOMAIN coinState.coinMap
      /\ coinState.coinMap[water2].type = "WATER"
      /\ seed1 \notin DOMAIN coinState.coinMap

\* C29: a drained split event whose source is in the registry and not yet
\* split creates a clone at the recorded spawn point, which is the contact
\* point raised by 1 exactly once; the clone is a SPLITTER with hasSplit set,
\* and the source keeps id and position and has hasSplit set.
C29_CloneAtSpawnPoint ==
  [][\A i \in DOMAIN pendingEvents.splits :
       LET ev == pendingEvents.splits[i]
           old == coinState.coinMap
           new == coinState'.coinMap
       IN  (/\ PendingEmpty(pendingEvents')
            /\ ev.id \in DOMAIN old
            /\ ~old[ev.id].hasSplit)
             => /\ \E contact \in ContactPoints :
                     ev.position = << contact[1], contact[2] + 1, contact[3] >>
                /\ \E c \in (DOMAIN new) \ (DOMAIN old) :
                     /\ new[c].type = "SPLITTER"
                     /\ new[c].hasSplit
                     /\ new[c].position
                          = Pos(ev.position[1], ev.position[2], ev.position[3])
                /\ ev.id \in DOMAIN new
                /\ new[ev.id] = [old[ev.id] EXCEPT !.hasSplit = TRUE]]_vars


\* cap(e) = max(1, round(12 * bedWidth(e) / baseWidth)), in tenths:
\* 12 * (10 + 4e) / 10 = (120 + 48e) / 10.
BurstCap(e) ==
  LET tenths == 120 + 48 * e
      rounded == IF tenths % 10 >= 5 THEN tenths \div 10 + 1 ELSE tenths \div 10
  IN  IF rounded >= 1 THEN rounded ELSE 1

\* N of the claim: 10 * (1 + 0.1 * (L - 1)) = 9 + L, a whole number.
BurstSize(L, e) ==
  LET wanted == IF 9 + L >= 1 THEN 9 + L ELSE 1
  IN  IF wanted <= BurstCap(e) THEN wanted ELSE BurstCap(e)

\* The step is the firing of a jackpot timer.
BurstFires == jackpotTimers # << >> /\ jackpotTimers' = Tail(jackpotTimers)

\* C30: the burst size computed for bonus level L and extender level e is
\* min(cap(e), max(1, round(10 * (1 + 0.1 * (L - 1))))), between 1 and cap(e)
\* and non-decreasing in L and in e; the firing of a jackpot timer for level
\* L adds exactly that many coins, all STANDARD, with ids nothing refers to,
\* at the end of the ordered list, keeps every other coin, and leaves the
\* game state (deck and cash included) unchanged.
C30_BurstSize ==
  /\ \A L \in 1..MaxBonusLevel, e \in 0..MaxExtender :
       /\ JackpotCoins(L, e) = BurstSize(L, e)
       /\ 1 <= JackpotCoins(L, e)
       /\ JackpotCoins(L, e) <= BurstCap(e)
       /\ L < MaxBonusLevel => JackpotCoins(L, e) <= JackpotCoins(L + 1, e)
       /\ e < MaxExtender => JackpotCoins(L, e) <= JackpotCoins(L, e + 1)
  /\ [][BurstFires
          => LET L == Head(jackpotTimers)
                 e == ArtifactLevel(gameStateRef.artifacts, "extender")
                 old == coinState.coinMap
                 new == coinState'.coinMap
                 created == (DOMAIN new) \ (DOMAIN old)
             IN  /\ Cardinality(created) = BurstSize(L, e)
                 /\ created \cap UsedIds = {}
                 /\ \A c \in created : new[c].type = "STANDARD" /\ new[c].id = c
                 /\ \A c \in DOMAIN old : c \in DOMAIN new /\ new[c] = old[c]
                 /\ Len(coinState'.coinOrder)
                      = Len(coinState.coinOrder) + BurstSize(L, e)
                 /\ SubSeq(coinState'.coinOrder, 1, Len(coinState.coinOrder))
                      = coinState.coinOrder
                 /\ {coinState'.coinOrder[k] :
                       k \in (Len(coinState.coinOrder) + 1)..Len(coinState'.coinOrder)}
                      = created
                 /\ gameState' = gameState]_vars


\* C31: the decay applied to the bonus since the most recent collection is at
\* most 20 times the simulated seconds that have passed beyond the 2-second
\* window of that collection.
C31_GraceHonoured ==
  obs.decayed <= decayRatePerSecond * Max(0, (physicsTime - lastScoreTime) - GraceSeconds)


\* C32: bonusLevel is at least 1, and a step changes it only by a meter fill
\* (a collection that leaves bonus 0 and bonusLevel one higher), by a
\* successful end of round or a restart (bonusLevel 1), or by a decay step
\* that brings a positive bonus to 0 (bonusLevel 1).
C32_BonusLevelChanges ==
  /\ gameState.bonusLevel >= 1
  /\ [][gameState'.bonusLevel # gameState.bonusLevel
          => \/ /\ Collected
                /\ gameState'.bonus = 0
                /\ gameState'.bonusLevel = gameState.bonusLevel + 1
             \/ /\ ~Collected
                /\ gameState'.bonusLevel = 1
                /\ \/ gameState.phase = "PLAYING" /\ gameState'.phase = "SHOP"
                   \/ gameState.phase = "GAME_OVER" /\ gameState'.phase = "MENU"
             \/ /\ ~Collected
                /\ gameState'.phase = gameState.phase
                /\ gameState'.bonusLevel = 1
                /\ gameState.bonus > 0
                /\ gameState'.bonus = 0]_vars


\* C33: a collection changes score, cash, bonus and bonusLevel only while
\* phase is PLAYING; while phase is and stays GAME_OVER, score, cash, bonus
\* and bonusLevel are fixed and no jackpot timer is set.
C33_CollectionOnlyWhilePlaying ==
  [][/\ (Collected /\ gameState.phase # "PLAYING")
          => /\ gameState'.score = gameState.score
             /\ gameState'.cash = gameState.cash
             /\ gameState'.bonus = gameState.bonus
             /\ gameState'.bonusLevel = gameState.bonusLevel
     /\ (gameState.phase = "GAME_OVER" /\ gameState'.phase = "GAME_OVER")
          => /\ gameState'.score = gameState.score
             /\ gameState'.cash = gameState.cash
             /\ gameState'.bonus = gameState.bonus
             /\ gameState'.bonusLevel = gameState.bonusLevel
             /\ Len(jackpotTimers') <= Len(jackpotTimers)]_vars

\* C34: the only change of type a coin in the registry undergoes is from
\* STANDARD to GOLD; no coin of another type is ever turned into GOLD.
C34_OnlyStandardTurnsGold ==
  [][\A c \in (DOMAIN coinState.coinMap) \cap (DOMAIN coinState'.coinMap) :
       coinState'.coinMap[c].type # coinState.coinMap[c].type
         => /\ coinState.coinMap[c].type = "STANDARD"
            /\ coinState'.coinMap[c].type = "GOLD"]_vars

\* C34 witness: a drain has applied a transmute event, the bought GOLD lies
\* beside a SPLITTER in the rendered list, and the SPLITTER is a SPLITTER
\* still while a coin of the fill is GOLD.
C34_SplitterBesideGoldKept ==
  /\ \E k \in DOMAIN obs.tick.applied : obs.tick.applied[k].kind = "transmute"
  /\ \E c \in DOMAIN coinState.coinMap :
       c.prefix = "start-" /\ coinState.coinMap[c].type = "GOLD"
  /\ \E i, j \in DOMAIN activeCoins :
       /\ j = i + 1 \/ i = j + 1
       /\ activeCoins[i].type = "GOLD" /\ activeCoins[i].id.prefix = ""
       /\ activeCoins[j].type = "SPLITTER"
       /\ activeCoins[j].id \in DOMAIN coinState.coinMap
       /\ coinState.coinMap[activeCoins[j].id].type = "SPLITTER"


\* The 24 orders of the four loops.
Orders ==
  {order \in [1..4 -> 1..4] : \A i, j \in 1..4 : order[i] = order[j] => i = j}

\* The registry a drain in the given order leaves: the coins along the ordered
\* list, the ids minted by the drain blanked.
RegistryAfter(order) ==
  LET st == DrainInOrder(
              DrainStart(FreshSeq(Len(pendingEvents.interactions)),
                         FreshSeq(Len(pendingEvents.splits))),
              pendingEvents, order)
  IN  [i \in DOMAIN st.coinOrder |->
         LET coin == st.coinMap[st.coinOrder[i]]
         IN  IF coin.id \in DOMAIN coinState.coinMap THEN coin
             ELSE [coin EXCEPT !.id = NoId]]

\* C35: whatever is queued for a drain, running the combine, split, transmute
\* and explosion loops in any of the 24 orders leaves the same registry
\* (ordered list and coins) as the order of the code, up to the ids minted.
C35_KindsCommute ==
  \A order \in Orders : RegistryAfter(order) = RegistryAfter(<< 1, 2, 3, 4 >>)


\* C37: a start on the enabled control invokes the callback once at once; a
\* start on the disabled control invokes nothing and sets no timer; and
\* while no start on the enabled control has happened since the last stop
\* (mouse up, mouse leave, touch end, unmount, disabled become true), no
\* step but such a start invokes the callback, whatever timers are pending.
C37_NoCallAfterStop ==
  [][/\ (hook'.starts = hook.starts + 1 /\ ~hook.disabled)
          => (hook'.calls = hook.calls + 1 /\ hook'.held)
     /\ (hook'.starts = hook.starts + 1 /\ hook.disabled)
          => (hook'.calls = hook.calls /\ hook'.timers = hook.timers
              /\ hook'.timerRef = hook.timerRef)
     /\ (hook'.starts = hook.starts /\ ~hook.held)
          => hook'.calls = hook.calls
     /\ (hook'.starts = hook.starts /\ ~hook'.held)
          => hook'.calls = hook.calls]_vars

\* C38: for any sequence of starts and stops on one hook (a second start
\* without a stop between included), the time between two successive
\* timer-driven invocations is at least minInterval and at most
\* baseInterval, no delay computed during a hold is longer than the one
\* before it, and at most one timer is pending.
C38_RateLimited ==
  /\ hook.timerCalls >= 2
       => (minInterval <= hook.lastGap /\ hook.lastGap <= hook.baseInterval)
  /\ ~hook.delayGrew
  /\ Cardinality(hook.timers) <= 1

=============================================================================
